---- MODULE Spec2Model ----
(***************************************************************************)
(* Model of librustdoc/clean/types.rs: the doc-fragment normaliser         *)
(* (add_doc_fragment, FromIterator<&DocFragment> for String), and the      *)
(* attribute aggregator Attributes::from_ast with doc_value and            *)
(* collapsed_doc_value.                                                    *)
(*                                                                         *)
(* Strings are sequences of one-character strings.  A Symbol is its text.  *)
(* An Option is None or Some(v).                                           *)
(***************************************************************************)
EXTENDS Integers, Sequences, FiniteSets, TLC

\* ------------------------------------------------------------------ bounds
\* Longest attribute stream (re-export attributes plus the item's own).
MaxAttrs == 3
\* Longest fragment sequence handed directly to the flattening operations.
MaxFrags == 2
\* Widest indent recorded in a fragment.
MaxIndent == 4
\* Most link records of one Attributes value.
MaxLinks == 2
\* Deepest render depth.
MaxDepth == 2
\* Largest definition index of a crate.
MaxDefIdx == 2
\* Deepest nesting of types inside a Type.
MaxTypeDepth == 2
\* Most arguments of a function declaration.
MaxArgs == 2
\* Most items an item owns.
MaxChildren == 2

\* ----------------------------------------------------------------- options
None == [some |-> FALSE, val |-> <<>>]
Some(v) == [some |-> TRUE, val |-> v]
\* PartialEq for Option
opt_eq(a, b) == a.some = b.some /\ (a.some => a.val = b.val)

\* A value standing for "the function did not return: it panicked".
Fault == [some |-> FALSE, val |-> <<"!">>]
\* A result variable no operation has written yet.
Unset == [some |-> FALSE, val |-> <<"?">>]

\* ----------------------------------------------------------------- strings
NL == "\n"
CR == "\r"
SP == " "

\* char::is_whitespace on the characters of the model's alphabet.
is_whitespace(c) == c \in {SP, NL, CR, "\t"}

\* The line without the carriage return of a "\r\n" terminator.
StripCR(line) ==
    IF Len(line) > 0 /\ line[Len(line)] = CR THEN SubSeq(line, 1, Len(line) - 1) ELSE line

\* str::lines: lines end with "\n" or "\r\n"; the final line ending is
\* optional, so no empty line follows a final terminator. cur is the line read so far.
RECURSIVE lines_from(_, _)
lines_from(s, cur) ==
    IF s = <<>> THEN (IF cur = <<>> THEN <<>> ELSE <<cur>>)
    ELSE IF Head(s) = NL THEN <<StripCR(cur)>> \o lines_from(Tail(s), <<>>)
    ELSE lines_from(Tail(s), Append(cur, Head(s)))

lines(s) == lines_from(s, <<>>)

\* ---------------------------------------------------------------- fragments
SugaredDoc == [kind |-> "SugaredDoc", filename |-> ""]
RawDoc == [kind |-> "RawDoc", filename |-> ""]
Include(f) == [kind |-> "Include", filename |-> f]

\* matches!(k, DocFragmentKind::Include { .. })
is_include(k) == k.kind = "Include"

DocFragment(line, span, parent_module, doc, kind, need_backline, indent) ==
    [line |-> line, span |-> span, parent_module |-> parent_module, doc |-> doc,
     kind |-> kind, need_backline |-> need_backline, indent |-> indent]

\* line.chars().any(|c| !c.is_whitespace())
has_non_whitespace(line) == \E i \in 1..Len(line) : ~is_whitespace(line[i])

\* add_doc_fragment's loop pushing a newline after every line, the last too.
RECURSIVE add_lines_newline_after_every_line(_, _, _)
add_lines_newline_after_every_line(out, rest, indent) ==
    IF rest = <<>> THEN [out |-> out, fault |-> FALSE]
    ELSE LET line == Head(rest)
         IN IF has_non_whitespace(line) /\ Len(line) < indent
            THEN [out |-> out, fault |-> TRUE]
            ELSE LET pushed == IF has_non_whitespace(line)
                               THEN out \o SubSeq(line, indent + 1, Len(line))
                               ELSE out \o line
                 IN add_lines_newline_after_every_line(Append(pushed, NL), Tail(rest), indent)

\* add_doc_fragment's loop asserting the length of blank lines too.
RECURSIVE add_lines_assert_every_line(_, _, _)
add_lines_assert_every_line(out, rest, indent) ==
    IF rest = <<>> THEN [out |-> out, fault |-> FALSE]
    ELSE LET line == Head(rest)
             peek == Tail(rest) # <<>>
         IN IF Len(line) < indent
            THEN [out |-> out, fault |-> TRUE]
            ELSE LET pushed == IF has_non_whitespace(line)
                               THEN out \o SubSeq(line, indent + 1, Len(line))
                               ELSE out \o line
                 IN add_lines_assert_every_line(IF peek THEN Append(pushed, NL) ELSE pushed,
                                                Tail(rest), indent)

\* The while loop of add_doc_fragment over the remaining lines `rest`:
\* a record [out, fault]; fault is the failed assert!(line.len() >= frag.indent),
\* after which nothing more is appended.
RECURSIVE add_lines(_, _, _)
add_lines(out, rest, indent) ==
    IF rest = <<>> THEN [out |-> out, fault |-> FALSE]
    ELSE LET line == Head(rest)
             peek == Tail(rest) # <<>>
         IN IF has_non_whitespace(line) /\ Len(line) < indent
            THEN [out |-> out, fault |-> TRUE]
            ELSE LET pushed == IF has_non_whitespace(line)
                               THEN out \o SubSeq(line, indent + 1, Len(line))
                               ELSE out \o line
                 IN add_lines(IF peek THEN Append(pushed, NL) ELSE pushed,
                              Tail(rest), indent)

\* add_doc_fragment pushing the final newline whatever need_backline says.
add_doc_fragment_always_backline(out, frag) ==
    LET r == add_lines(out, lines(frag.doc), frag.indent)
    IN IF r.fault THEN r ELSE [out |-> Append(r.out, NL), fault |-> FALSE]

add_doc_fragment(out, frag) ==
    LET r == add_lines(out, lines(frag.doc), frag.indent)
    IN IF r.fault THEN r
       ELSE [out |-> IF frag.need_backline THEN Append(r.out, NL) ELSE r.out,
             fault |-> FALSE]

\* The fold of FromIterator<&DocFragment> for String from accumulator acc
\* with prev_kind (an Option) over the fragments `rest`: [out, fault].
RECURSIVE from_iter_fold(_, _, _)
from_iter_fold(acc, prev_kind, rest) ==
    IF rest = <<>> THEN [out |-> acc, fault |-> FALSE]
    ELSE LET frag == Head(rest)
             sep == acc # <<>> /\ prev_kind.some
                    /\ is_include(prev_kind.val) /\ prev_kind.val # frag.kind
             r == add_doc_fragment(IF sep THEN Append(acc, NL) ELSE acc, frag)
         IN IF r.fault THEN r
            ELSE from_iter_fold(r.out, Some(frag.kind), Tail(rest))

from_iter(frags) == from_iter_fold(<<>>, [some |-> FALSE, val |-> SugaredDoc], frags)

\* doc_value's loop without its break: every later fragment is appended.
RECURSIVE doc_value_loop_no_break(_, _, _)
doc_value_loop_no_break(out, ori, rest) ==
    IF rest = <<>> THEN [out |-> out, fault |-> FALSE]
    ELSE LET r == add_doc_fragment(out, Head(rest))
         IN IF r.fault THEN r ELSE doc_value_loop_no_break(r.out, ori, Tail(rest))

\* doc_value's loop breaking on a different kind only, not on a different module.
RECURSIVE doc_value_loop_kind_only(_, _, _)
doc_value_loop_kind_only(out, ori, rest) ==
    IF rest = <<>> THEN [out |-> out, fault |-> FALSE]
    ELSE LET new_frag == Head(rest)
         IN IF is_include(ori.kind) \/ new_frag.kind # ori.kind
            THEN [out |-> out, fault |-> FALSE]
            ELSE LET r == add_doc_fragment(out, new_frag)
                 IN IF r.fault THEN r ELSE doc_value_loop_kind_only(r.out, ori, Tail(rest))

\* The while loop of doc_value after the first fragment ori: [out, fault].
RECURSIVE doc_value_loop(_, _, _)
doc_value_loop(out, ori, rest) ==
    IF rest = <<>> THEN [out |-> out, fault |-> FALSE]
    ELSE LET new_frag == Head(rest)
         IN IF is_include(ori.kind) \/ new_frag.kind # ori.kind
               \/ new_frag.parent_module # ori.parent_module
            THEN [out |-> out, fault |-> FALSE]
            ELSE LET r == add_doc_fragment(out, new_frag)
                 IN IF r.fault THEN r ELSE doc_value_loop(r.out, ori, Tail(rest))

\* Attributes::doc_value: None, Some(string), or Fault.
doc_value(strings) ==
    IF strings = <<>> THEN None
    ELSE LET first == add_doc_fragment(<<>>, Head(strings))
             r == IF first.fault THEN first
                  ELSE doc_value_loop(first.out, Head(strings), Tail(strings))
         IN IF r.fault THEN Fault
            ELSE IF r.out = <<>> THEN None ELSE Some(r.out)

\* Attributes::collapsed_doc_value: None, Some(string), or Fault.
collapsed_doc_value(strings) ==
    IF strings = <<>> THEN None
    ELSE LET r == from_iter(strings) IN IF r.fault THEN Fault ELSE Some(r.out)

\* --------------------------------------------------------------- predicates
\* A Cfg is kept in normal form as the set of atoms its conjunction ranges
\* over; Cfg::True, the tautology, is the empty conjunction.
CfgTrue == {}

\* `cfg &= new_cfg`: the conjunction of the two predicates.
cfg_and(a, b) == a \cup b

\* Cfg::parse of the name-value item target_feature = "feat" (always Ok).
target_feature_cfg(feat) == {<<"target_feature", feat>>}

\* -------------------------------------------------------------- attributes
\* An ast::Attribute is modelled by what from_ast reads of it:
\*   name            the path has_name tests ("doc", "target_feature", ...)
\*   style           AttrStyle: "Inner" or "Outer"
\*   span            where it is written
\*   doc_str         Option: the documentation text, as beautify_doc_string
\*                   returns it (a `///` comment or #[doc = "..."])
\*   is_doc_comment  TRUE for a sugared comment, FALSE for #[doc = "..."]
\*   cfg             Option: for #[doc(cfg(p))], the outcome of Cfg::parse(p):
\*                   [ok |-> TRUE, cfg |-> c] or [ok |-> FALSE, span, msg]
\*   include         Option: for #[doc(include(file, contents))],
\*                   [filename, contents] as extract_include returns them
\*   list            Option: meta_item_list(), a sequence of nested items
\*                   [name, value_str]
Attribute(name, style, doc_str, is_doc_comment, cfg_parse, include, list) ==
    [name |-> name, style |-> style, span |-> <<0, "attr">>, doc_str |-> doc_str,
     is_doc_comment |-> is_doc_comment, cfg |-> cfg_parse, include |-> include,
     list |-> list]

NestedItem(name, value_str) == [name |-> name, value_str |-> value_str]

\* `/// text` (Outer) or `//! text` (Inner)
SugaredAttr(text, style) == Attribute("doc", style, Some(text), TRUE, None, None, None)
\* #[doc = "text"] or #![doc = "text"]
RawAttr(text, style) == Attribute("doc", style, Some(text), FALSE, None, None, None)
\* #[doc(cfg(p))] with the outcome of parsing p
DocCfgAttr(parse) ==
    Attribute("doc", "Outer", None, FALSE, Some(parse), None,
              Some(<<NestedItem("cfg", None)>>))
\* #[doc(include(file = "f", contents = "c"))]
DocIncludeAttr(f, c) ==
    Attribute("doc", "Outer", None, FALSE, None,
              Some([filename |-> f, contents |-> c]),
              Some(<<NestedItem("include", None)>>))
\* #[target_feature(...)] with its nested items
TargetFeatureAttr(items) ==
    Attribute("target_feature", "Outer", None, FALSE, None, None, Some(items))
\* Any attribute that is neither documentation nor a target feature: #[inline]
WordAttr(name) == Attribute(name, "Outer", None, FALSE, None, None, None)

ParseOk(c) == [ok |-> TRUE, cfg |-> c, span |-> <<0, "cfg">>, msg |-> ""]
ParseErr == [ok |-> FALSE, cfg |-> CfgTrue, span |-> <<0, "cfg">>, msg |-> "invalid predicate"]

\* The attribute written at position p of the stream: its span, and the span
\* inside it that a predicate parse error points at.
at_position(a, p) ==
    [a EXCEPT !.span = <<p, "attr">>,
              !.cfg = IF a.cfg.some THEN Some([a.cfg.val EXCEPT !.span = <<p, "cfg">>])
                      ELSE a.cfg]

\* The module a re-export's additional attributes come from.
ReexportModule == "M1"

\* ----------------------------------------------------- the input universe
TextA == <<"a">>
TextBNl == <<"b", NL>>
TextI == <<"i">>
TextJ == <<"j", NL, "k">>

AttrUniverse ==
    { SugaredAttr(TextA, "Outer"), SugaredAttr(TextBNl, "Outer"),
      SugaredAttr(<<>>, "Outer"), RawAttr(TextA, "Inner"),
      DocIncludeAttr("f1", TextI), DocIncludeAttr("f2", TextJ),
      DocCfgAttr(ParseOk({<<"unix">>})), DocCfgAttr(ParseOk(CfgTrue)),
      DocCfgAttr(ParseErr),
      TargetFeatureAttr(<<NestedItem("enable", Some("avx2")),
                          NestedItem("other", Some("x"))>>),
      WordAttr("inline") }

\* ------------------------------------------------------------------ state
VARIABLES
    attrs,            \* from_ast's `attrs`: the item's own attributes
    additional_attrs, \* from_ast's `additional_attrs`: None or Some([attrs, id])
    pc,               \* "clean": iterating the stream; "done": from_ast returned
    idx,              \* position in the stream of the next attribute to clean
    doc_strings,      \* from_ast's local doc_strings
    sp,               \* from_ast's local sp
    cfg,              \* from_ast's local cfg
    doc_line,         \* from_ast's local doc_line
    other_attrs,      \* the attributes clean_attr kept so far
    diagnostics,      \* the spans diagnostic.span_err was called with, in order
    result,           \* the Attributes value returned (Unset before)
    dv,               \* the last result of result.doc_value() (Unset before)
    cdv,              \* the last result of result.collapsed_doc_value()
    frags,            \* a fragment sequence handed to the flattening operations
    flat,             \* the flattening operation applied to frags and what it gave
    alias_attrs,      \* the other_attrs of an Attributes value asked for its aliases
    aliases,          \* what get_doc_aliases() returned for it (Unset before)
    item_links,       \* Attributes::links of the value links() is called on
    extern_location,  \* cache.extern_locations.get(&krate): None or Some(location)
    current_depth,    \* CURRENT_DEPTH of the calling thread
    nightly,          \* UnstableFeatures::from_environment(None).is_nightly_build()
    located,          \* the definitions href(did, cache) finds a location for
    rendered,         \* what links() returned: Some(list), Fault, or Unset before
    max_def_idx,      \* MAX_DEF_IDX: for each thread, its map CrateNum -> Option DefIndex
    tcx,              \* the compiler's stability and deprecation tables
    item_query,       \* the Item query that last returned, with what it gave
    cell,             \* all_impls' static CELL: [state, value]
    callers,          \* for each thread, its call of all_impls or impls:
                      \* [pc, tcx, seen, self, ret]
    closure_runs,     \* how many times the closure of get_or_init was entered
    prim_call,        \* a PrimitiveType with what as_sym, as_str, from_symbol gave
    fn_call,          \* a FnDecl's inputs with what to_self and self_type gave
    item_call,        \* an ItemKind with what inner_items returned for it
    attrs_cmp,        \* two Attributes with what == and hash gave for them
    type_call         \* a Type and a Cache with what the def-id queries gave

from_ast_vars == <<attrs, additional_attrs, pc, idx, doc_strings, sp, cfg, doc_line,
                   other_attrs, diagnostics, result, dv, cdv>>
flat_vars == <<frags, flat>>
alias_vars == <<alias_attrs, aliases>>
links_vars == <<item_links, extern_location, current_depth, nightly, located, rendered>>
fake_vars == <<max_def_idx, tcx, item_query>>
impls_vars == <<cell, callers, closure_runs>>
type_vars == <<prim_call, fn_call, item_call, attrs_cmp, type_call>>
query_vars == <<alias_vars, links_vars, fake_vars, impls_vars, type_vars>>
vars == <<from_ast_vars, flat_vars, query_vars>>

\* No query has been made of any value.
AliasIdle == alias_attrs = <<>> /\ aliases = Unset
LinksIdle ==
    /\ item_links = <<>> /\ extern_location = None /\ current_depth = 0
    /\ nightly = FALSE /\ located = {} /\ rendered = Unset
NoQuery == [op |-> "none"]
FakeIdle == max_def_idx = <<>> /\ tcx = <<>> /\ item_query = NoQuery
ImplsIdle == cell = <<>> /\ callers = <<>> /\ closure_runs = 0
TypesIdle ==
    /\ prim_call = <<>> /\ fn_call = <<>> /\ item_call = <<>>
    /\ attrs_cmp = <<>> /\ type_call = <<>>
QueryIdle == AliasIdle /\ LinksIdle /\ FakeIdle /\ ImplsIdle /\ TypesIdle

\* The stream with the item's own attributes first.
attr_stream_own_first(additional, own) ==
    [i \in 1..Len(own) |-> [attr |-> own[i], parent_module |-> None]]
    \o (IF additional.some
        THEN [i \in 1..Len(additional.val.attrs) |->
                [attr |-> additional.val.attrs[i], parent_module |-> Some(additional.val.id)]]
        ELSE <<>>)

\* additional_attrs.into_iter().map(..).flatten().chain(attrs.iter().map(..)):
\* the pairs (attr, parent_module) in the order clean_attr sees them.
attr_stream(additional, own) ==
    (IF additional.some
     THEN [i \in 1..Len(additional.val.attrs) |->
             [attr |-> additional.val.attrs[i], parent_module |-> Some(additional.val.id)]]
     ELSE <<>>)
    \o [i \in 1..Len(own) |-> [attr |-> own[i], parent_module |-> None]]

stream == attr_stream(additional_attrs, attrs)

\* update_need_backline deciding the flag of every fragment pushed so far.
update_need_backline_all_fragments(strings, frag) ==
    IF strings = <<>> THEN strings
    ELSE LET prev == strings[Len(strings)]
             nb == IF is_include(prev.kind) \/ prev.kind # frag.kind
                      \/ prev.parent_module # frag.parent_module
                   THEN prev.kind = SugaredDoc \/ prev.kind = RawDoc
                   ELSE TRUE
         IN [i \in 1..Len(strings) |-> [strings[i] EXCEPT !.need_backline = nb]]

\* update_need_backline padding after every segment, an Include too.
update_need_backline_pads_every_segment(strings, frag) ==
    IF strings = <<>> THEN strings
    ELSE [strings EXCEPT ![Len(strings)].need_backline = TRUE]

\* update_need_backline leaving the flag unset between fragments of one block.
update_need_backline_not_in_block(strings, frag) ==
    IF strings = <<>> THEN strings
    ELSE LET prev == strings[Len(strings)]
             nb == IF is_include(prev.kind) \/ prev.kind # frag.kind
                      \/ prev.parent_module # frag.parent_module
                   THEN prev.kind = SugaredDoc \/ prev.kind = RawDoc
                   ELSE FALSE
         IN [strings EXCEPT ![Len(strings)].need_backline = nb]

\* update_need_backline, called before doc_strings.push(frag): the
\* doc_strings with the flag of the last fragment decided.
update_need_backline(strings, frag) ==
    IF strings = <<>> THEN strings
    ELSE LET prev == strings[Len(strings)]
             nb == IF is_include(prev.kind) \/ prev.kind # frag.kind
                      \/ prev.parent_module # frag.parent_module
                   THEN prev.kind = SugaredDoc \/ prev.kind = RawDoc
                   ELSE TRUE
         IN [strings EXCEPT ![Len(strings)].need_backline = nb]

push_fragment(strings, frag) == Append(update_need_backline(strings, frag), frag)

\* ListAttributesIter over attrs.lists(name): the nested items of every
\* attribute named `name` that has a meta item list, in order.
RECURSIVE lists(_, _)
lists(as, name) ==
    IF as = <<>> THEN <<>>
    ELSE (IF Head(as).list.some /\ Head(as).name = name THEN Head(as).list.val ELSE <<>>)
         \o lists(Tail(as), name)

\* The for loop over attrs.lists(sym::target_feature), from predicate c.
RECURSIVE fold_target_features(_, _)
fold_target_features(c, items) ==
    IF items = <<>> THEN c
    ELSE LET it == Head(items)
         IN fold_target_features(
                IF it.name = "enable" /\ it.value_str.some
                THEN cfg_and(c, target_feature_cfg(it.value_str.val)) ELSE c,
                Tail(items))

\* attrs.iter().find(|a| a.doc_str().is_some()).map_or(true, |a| a.style == Inner)
RECURSIVE inner_docs_of(_)
inner_docs_of(as) ==
    IF as = <<>> THEN TRUE
    ELSE IF Head(as).doc_str.some THEN Head(as).style = "Inner"
    ELSE inner_docs_of(Tail(as))

\* Target features folded from the re-export's attributes too.
target_feature_attrs_with_reexport(additional, own) ==
    (IF additional.some THEN additional.val.attrs ELSE <<>>) \o own

\* The attributes from_ast folds target features from.
target_feature_attrs(additional, own) == own

\* The record with inner_docs decided over the whole processed stream.
build_attributes_inner_docs_of_stream(strings, others, c, span, own) ==
    [doc_strings |-> strings, other_attrs |-> others,
     cfg |-> IF c = CfgTrue THEN None ELSE Some(c),
     span |-> span, links |-> <<>>,
     inner_docs |-> inner_docs_of([i \in 1..Len(stream) |-> stream[i].attr])]

\* The Attributes value from_ast returns.
build_attributes(strings, others, c, span, own) ==
    [doc_strings |-> strings, other_attrs |-> others,
     cfg |-> IF c = CfgTrue THEN None ELSE Some(c),
     span |-> span, links |-> <<>>, inner_docs |-> inner_docs_of(own)]

\* ---------------------------------------------------------------- actions
Cleaning == pc = "clean" /\ idx <= Len(stream)
cur == stream[idx]

\* clean_attr counting one line for every documentation text.
CleanDocStr_CountsFragments ==
    /\ Cleaning /\ cur.attr.doc_str.some
    /\ LET value == cur.attr.doc_str.val
           kind == IF cur.attr.is_doc_comment THEN SugaredDoc ELSE RawDoc
           frag == DocFragment(doc_line, cur.attr.span, cur.parent_module, value,
                               kind, FALSE, 0)
       IN /\ doc_line' = doc_line + 1
          /\ doc_strings' = push_fragment(doc_strings, frag)
          /\ sp' = IF sp = None THEN Some(cur.attr.span) ELSE sp
    /\ idx' = idx + 1
    /\ UNCHANGED <<attrs, additional_attrs, pc, cfg, other_attrs, diagnostics, result, dv, cdv>>
    /\ UNCHANGED <<flat_vars, query_vars>>

\* clean_attr, attr.doc_str() is Some(value).
CleanDocStr ==
    /\ Cleaning /\ cur.attr.doc_str.some
    /\ LET value == cur.attr.doc_str.val
           kind == IF cur.attr.is_doc_comment THEN SugaredDoc ELSE RawDoc
           frag == DocFragment(doc_line, cur.attr.span, cur.parent_module, value,
                               kind, FALSE, 0)
       IN /\ doc_line' = doc_line + Len(lines(value))
          /\ doc_strings' = push_fragment(doc_strings, frag)
          /\ sp' = IF sp = None THEN Some(cur.attr.span) ELSE sp
    /\ idx' = idx + 1
    /\ UNCHANGED <<attrs, additional_attrs, pc, cfg, other_attrs, diagnostics, result, dv, cdv>>
    /\ UNCHANGED <<flat_vars, query_vars>>

NotDocStr == Cleaning /\ ~cur.attr.doc_str.some
IsDocMeta == NotDocStr /\ cur.attr.name = "doc"

\* clean_attr, #[doc(cfg(p))] and Cfg::parse(p) is Ok(new_cfg).
CleanDocCfgOk ==
    /\ IsDocMeta /\ cur.attr.cfg.some /\ cur.attr.cfg.val.ok
    /\ cfg' = cfg_and(cfg, cur.attr.cfg.val.cfg)
    /\ other_attrs' = Append(other_attrs, cur.attr)
    /\ idx' = idx + 1
    /\ UNCHANGED <<attrs, additional_attrs, pc, doc_strings, sp, doc_line, diagnostics,
                   result, dv, cdv>>
    /\ UNCHANGED <<flat_vars, query_vars>>

\* A parse error that also throws the running predicate away.
CleanDocCfgErr_ResetsCfg ==
    /\ IsDocMeta /\ cur.attr.cfg.some /\ ~cur.attr.cfg.val.ok
    /\ diagnostics' = Append(diagnostics, cur.attr.cfg.val.span)
    /\ cfg' = CfgTrue
    /\ other_attrs' = Append(other_attrs, cur.attr)
    /\ idx' = idx + 1
    /\ UNCHANGED <<attrs, additional_attrs, pc, doc_strings, sp, doc_line,
                   result, dv, cdv>>
    /\ UNCHANGED <<flat_vars, query_vars>>

\* clean_attr, #[doc(cfg(p))] and Cfg::parse(p) is Err(e).
CleanDocCfgErr ==
    /\ IsDocMeta /\ cur.attr.cfg.some /\ ~cur.attr.cfg.val.ok
    /\ diagnostics' = Append(diagnostics, cur.attr.cfg.val.span)
    /\ other_attrs' = Append(other_attrs, cur.attr)
    /\ idx' = idx + 1
    /\ UNCHANGED <<attrs, additional_attrs, pc, doc_strings, sp, cfg, doc_line,
                   result, dv, cdv>>
    /\ UNCHANGED <<flat_vars, query_vars>>

\* clean_attr, #[doc(include(file, contents))].
CleanInclude ==
    /\ IsDocMeta /\ ~cur.attr.cfg.some /\ cur.attr.include.some
    /\ LET inc == cur.attr.include.val
           frag == DocFragment(doc_line, cur.attr.span, cur.parent_module, inc.contents,
                               Include(inc.filename), FALSE, 0)
       IN /\ doc_line' = doc_line + Len(lines(inc.contents))
          /\ doc_strings' = push_fragment(doc_strings, frag)
    /\ other_attrs' = Append(other_attrs, cur.attr)
    /\ idx' = idx + 1
    /\ UNCHANGED <<attrs, additional_attrs, pc, sp, cfg, diagnostics, result, dv, cdv>>
    /\ UNCHANGED <<flat_vars, query_vars>>

\* clean_attr, any other attribute: kept as it is.
CleanOther ==
    /\ NotDocStr
    /\ ~(cur.attr.name = "doc" /\ (cur.attr.cfg.some \/ cur.attr.include.some))
    /\ other_attrs' = Append(other_attrs, cur.attr)
    /\ idx' = idx + 1
    /\ UNCHANGED <<attrs, additional_attrs, pc, doc_strings, sp, cfg, doc_line,
                   diagnostics, result, dv, cdv>>
    /\ UNCHANGED <<flat_vars, query_vars>>

\* The rest of from_ast once the stream is consumed: the target_feature
\* loop, inner_docs and the returned record.
Finish ==
    /\ pc = "clean" /\ idx > Len(stream)
    /\ LET c == fold_target_features(
                    cfg, lists(target_feature_attrs(additional_attrs, attrs), "target_feature"))
       IN /\ cfg' = c
          /\ result' = build_attributes(doc_strings, other_attrs, c, sp, attrs)
    /\ pc' = "done"
    /\ UNCHANGED <<attrs, additional_attrs, idx, doc_strings, sp, doc_line, other_attrs,
                   diagnostics, dv, cdv>>
    /\ UNCHANGED <<flat_vars, query_vars>>

\* result.doc_value()
DocValue ==
    /\ pc = "done"
    /\ dv' = doc_value(result.doc_strings)
    /\ UNCHANGED <<attrs, additional_attrs, pc, idx, doc_strings, sp, cfg, doc_line,
                   other_attrs, diagnostics, result, cdv>>
    /\ UNCHANGED <<flat_vars, query_vars>>

\* result.collapsed_doc_value()
CollapsedDocValue ==
    /\ pc = "done"
    /\ cdv' = collapsed_doc_value(result.doc_strings)
    /\ UNCHANGED <<attrs, additional_attrs, pc, idx, doc_strings, sp, cfg, doc_line,
                   other_attrs, diagnostics, result, dv>>
    /\ UNCHANGED <<flat_vars, query_vars>>

\* The streams from_ast is called with: at most MaxAttrs attributes, the
\* first k of them contributed by a re-export from ReexportModule.
Init ==
    /\ \E n \in 0..MaxAttrs : \E k \in 0..n : \E s \in [1..n -> AttrUniverse] :
         LET placed == [i \in 1..n |-> at_position(s[i], i)]
         IN /\ additional_attrs =
                 (IF k = 0 THEN None
                  ELSE Some([attrs |-> SubSeq(placed, 1, k), id |-> ReexportModule]))
            /\ attrs = SubSeq(placed, k + 1, n)
    /\ pc = "clean" /\ idx = 1
    /\ doc_strings = <<>> /\ sp = None /\ cfg = CfgTrue /\ doc_line = 0
    /\ other_attrs = <<>> /\ diagnostics = <<>>
    /\ result = Unset /\ dv = Unset /\ cdv = Unset
    /\ frags = <<>> /\ flat = [op |-> "none"]
    /\ QueryIdle

Next ==
    \/ CleanDocStr
    \/ CleanDocCfgOk
    \/ CleanDocCfgErr
    \/ CleanInclude
    \/ CleanOther
    \/ Finish
    \/ DocValue
    \/ CollapsedDocValue

Spec == Init /\ [][Next]_vars

\* ------------------------------------------- flattening arbitrary fragments
\* Fragments as later passes may leave them: any need_backline, and an indent
\* as the unindent pass records it.  Seen through doc_value,
\* collapsed_doc_value and add_doc_fragment.

TextSpBNl == <<SP, "b", NL>>
\* "    hello\n\n    world"
TextHello ==
    <<SP, SP, SP, SP, "h", "e", "l", "l", "o", NL, NL, SP, SP, SP, SP, "w", "o", "r", "l", "d">>
\* "  a\n b"
TextRagged == <<SP, SP, "a", NL, SP, "b">>
\* "a\r\nb\n"
TextCrLf == <<"a", CR, NL, "b", NL>>
\* " \n  a": a blank line shorter than the text line's indent
TextBlankFirst == <<SP, NL, SP, SP, "a">>

\* Fragments of short texts, to be pushed one after the other as from_ast
\* does, which decides need_backline.
SeqFragments ==
    { DocFragment(0, <<0, "attr">>, pm, t, k, FALSE, ind) :
        pm \in {None, Some(ReexportModule)}, t \in {TextA, TextSpBNl},
        k \in {SugaredDoc, RawDoc, Include("f1")}, ind \in {0, 1} }

\* The doc_strings after pushing the fragments fs onto strings.
RECURSIVE push_all(_, _)
push_all(strings, fs) ==
    IF fs = <<>> THEN strings ELSE push_all(push_fragment(strings, Head(fs)), Tail(fs))

\* Fragments of several lines with every indent up to MaxIndent, taken alone:
\* with need_backline set, a fragment that is not the last of its doc_strings.
LoneFragments ==
    { DocFragment(0, <<0, "attr">>, None, t, RawDoc, nb, ind) :
        t \in {TextHello, TextRagged, TextCrLf, TextBlankFirst, <<>>},
        nb \in BOOLEAN, ind \in 0..MaxIndent }

\* The string s as the only fragment of a sequence, indent 0 and no backline.
single_fragment(s) == <<DocFragment(0, <<0, "attr">>, None, s, RawDoc, FALSE, 0)>>

NoFlat == [op |-> "none"]

FlatIdle == flat = NoFlat

\* frags is a whole doc_strings: its last fragment never has need_backline set.
WholeDocStrings == IF frags = <<>> THEN TRUE ELSE ~frags[Len(frags)].need_backline

\* add_doc_fragment(&mut out, &frags[0]) for an `out` that is empty or not.
FlatAddDocFragment ==
    /\ FlatIdle /\ frags # <<>>
    /\ \E out \in {<<>>, <<"x">>} :
         flat' = [op |-> "add_doc_fragment", out |-> out,
                  r |-> add_doc_fragment(out, frags[1])]
    /\ UNCHANGED <<from_ast_vars, frags, query_vars>>

\* doc_value() of frags, and doc_value() of its result as a single fragment.
FlatDocValue ==
    /\ FlatIdle /\ WholeDocStrings
    /\ LET first == doc_value(frags)
       IN flat' = [op |-> "doc_value", first |-> first,
                   again |-> IF first.some THEN doc_value(single_fragment(first.val))
                             ELSE Unset]
    /\ UNCHANGED <<from_ast_vars, frags, query_vars>>

\* collapsed_doc_value() of frags, and of its result as a single fragment.
FlatCollapsedDocValue ==
    /\ FlatIdle /\ WholeDocStrings
    /\ LET first == collapsed_doc_value(frags)
       IN flat' = [op |-> "collapsed_doc_value", first |-> first,
                   again |-> IF first.some
                             THEN collapsed_doc_value(single_fragment(first.val))
                             ELSE Unset]
    /\ UNCHANGED <<from_ast_vars, frags, query_vars>>

FlatInit ==
    /\ \/ \E n \in 0..MaxFrags : \E fs \in [1..n -> SeqFragments] :
            frags = push_all(<<>>, fs)
       \/ \E f \in LoneFragments : frags = <<f>>
    /\ flat = NoFlat
    /\ attrs = <<>> /\ additional_attrs = None
    /\ pc = "idle" /\ idx = 1
    /\ doc_strings = <<>> /\ sp = None /\ cfg = CfgTrue /\ doc_line = 0
    /\ other_attrs = <<>> /\ diagnostics = <<>>
    /\ result = Unset /\ dv = Unset /\ cdv = Unset
    /\ QueryIdle

FlatNext ==
    \/ FlatAddDocFragment
    \/ FlatDocValue
    \/ FlatCollapsedDocValue

FlatSpec == FlatInit /\ [][FlatNext]_vars

\* ----------------------------------------------------------- doc aliases
\* No from_ast call and no flattening is under way.
FromAstIdle ==
    /\ attrs = <<>> /\ additional_attrs = None
    /\ pc = "idle" /\ idx = 1
    /\ doc_strings = <<>> /\ sp = None /\ cfg = CfgTrue /\ doc_line = 0
    /\ other_attrs = <<>> /\ diagnostics = <<>>
    /\ result = Unset /\ dv = Unset /\ cdv = Unset
    /\ frags = <<>> /\ flat = NoFlat

\* #[doc(items..)]: a doc attribute with a meta item list and no text.
DocListAttr(items) == Attribute("doc", "Outer", None, FALSE, None, None, Some(items))
\* alias = "s"
AliasItem(s) == NestedItem("alias", Some(s))

\* The attributes an Attributes value may keep in other_attrs.
AliasAttrUniverse ==
    { DocListAttr(<<AliasItem("foo"), AliasItem(""), AliasItem("foo")>>),
      DocListAttr(<<AliasItem("bar"), NestedItem("hidden", None),
                    NestedItem("test", Some("zed"))>>),
      DocListAttr(<<NestedItem("alias", None), AliasItem("foo")>>),
      DocListAttr(<<AliasItem("")>>),
      Attribute("doc", "Outer", None, FALSE, None, None, None),
      Attribute("cfg_attr", "Outer", None, FALSE, None, None,
                Some(<<AliasItem("baz")>>)),
      WordAttr("inline") }

\* get_doc_aliases without the filter on empty strings.
get_doc_aliases_keeps_empty(others) ==
    LET items == lists(others, "doc")
    IN { items[i].value_str.val : i \in
           { j \in 1..Len(items) :
               items[j].name = "alias" /\ items[j].value_str.some } }

\* Attributes::get_doc_aliases on the other_attrs `others`: the set collected
\* from lists(doc), filtered by name alias, mapped through value_str and
\* filtered by !is_empty.
get_doc_aliases(others) ==
    LET items == lists(others, "doc")
    IN { items[i].value_str.val : i \in
           { j \in 1..Len(items) :
               /\ items[j].name = "alias"
               /\ items[j].value_str.some
               /\ items[j].value_str.val # "" } }

\* self.get_doc_aliases()
GetDocAliases ==
    /\ ~aliases.some
    /\ aliases' = Some(get_doc_aliases(alias_attrs))
    /\ UNCHANGED <<from_ast_vars, flat_vars, alias_attrs, links_vars, fake_vars, impls_vars, type_vars>>

AliasInit ==
    /\ \E n \in 0..MaxAttrs : \E s \in [1..n -> AliasAttrUniverse] :
         alias_attrs = [i \in 1..n |-> at_position(s[i], i)]
    /\ aliases = Unset
    /\ FromAstIdle /\ LinksIdle /\ FakeIdle /\ ImplsIdle /\ TypesIdle

AliasNext == GetDocAliases

AliasSpec == AliasInit /\ [][AliasNext]_vars

\* ----------------------------------------------------------------- links
HASH == "#"
SLASH == "/"

\* An ItemLink: the link as written, the text to display, the resolved
\* definition (an Option) and the url fragment (an Option).
ItemLink(link, link_text, did, fragment) ==
    [link |-> link, link_text |-> link_text, did |-> did, fragment |-> fragment]

RenderedLink(original_text, new_text, href) ==
    [original_text |-> original_text, new_text |-> new_text, href |-> href]

\* ExternalLocation
Local == [loc |-> "Local", url |-> <<>>]
Remote(s) == [loc |-> "Remote", url |-> s]
Unknown == [loc |-> "Unknown", url |-> <<>>]

NightlyRoot == <<"h", "t", "t", "p", "s", ":", "/", "/", "d", "o", "c", ".", "r", "u", "s", "t", "-", "l", "a", "n", "g", ".", "o", "r", "g", "/", "n", "i", "g", "h", "t", "l", "y">>
StableRoot == <<"h", "t", "t", "p", "s", ":", "/", "/", "d", "o", "c", ".", "r", "u", "s", "t", "-", "l", "a", "n", "g", ".", "o", "r", "g">>
StdPrimitive == <<"s", "t", "d", "/", "p", "r", "i", "m", "i", "t", "i", "v", "e", ".">>
DotHtml == <<".", "h", "t", "m", "l">>

\* "../".repeat(depth)
RECURSIVE repeat_dot_dot(_)
repeat_dot_dot(depth) ==
    IF depth = 0 THEN <<>> ELSE <<".", ".", SLASH>> \o repeat_dot_dot(depth - 1)

ends_with_slash(url) == Len(url) > 0 /\ url[Len(url)] = SLASH

\* fragment.find('#').unwrap_or_else(|| fragment.len()), as a byte offset.
RECURSIVE find_hash(_)
find_hash(fragment) ==
    IF fragment = <<>> THEN 0
    ELSE IF Head(fragment) = HASH THEN 0
    ELSE 1 + find_hash(Tail(fragment))

\* href(did, cache): the location the cache holds for the definition.
href(did, paths) == IF did \in paths THEN Some(<<"p", "/", did>>) ELSE None

\* The base url of the primitive pages of the crate, by its recorded location.
primitive_url(location, depth, is_nightly) ==
    IF location.some /\ location.val.loc = "Local" THEN repeat_dot_dot(depth)
    ELSE IF location.some /\ location.val.loc = "Remote" THEN location.val.url
    ELSE IF is_nightly THEN NightlyRoot ELSE StableRoot

\* The format! with a '/' pushed after every url.
primitive_href_always_slash(url, fragment) ==
    LET tail == find_hash(fragment)
    IN url \o <<SLASH>> \o StdPrimitive
       \o SubSeq(fragment, 1, tail) \o DotHtml
       \o SubSeq(fragment, tail + 1, Len(fragment))

\* format!("{}{}std/primitive.{}.html{}", url, if !url.ends_with('/') { "/" }
\* else { "" }, &fragment[..tail], &fragment[tail..])
primitive_href(url, fragment) ==
    LET tail == find_hash(fragment)
    IN url \o (IF ~ends_with_slash(url) THEN <<SLASH>> ELSE <<>>) \o StdPrimitive
       \o SubSeq(fragment, 1, tail) \o DotHtml
       \o SubSeq(fragment, tail + 1, Len(fragment))

Dropped == [fault |-> FALSE, kept |-> FALSE, link |-> None]
Kept(l) == [fault |-> FALSE, kept |-> TRUE, link |-> Some(l)]
Panicked == [fault |-> TRUE, kept |-> FALSE, link |-> None]

\* The closure dropping a record with neither a definition nor a fragment.
render_link_drops_unlinked(l, location, depth, is_nightly, paths) ==
    IF l.did.some
    THEN LET h == href(l.did.val, paths)
         IN IF h.some
            THEN Kept(RenderedLink(l.link, l.link_text,
                     h.val \o (IF l.fragment.some THEN <<HASH>> \o l.fragment.val
                               ELSE <<>>)))
            ELSE Dropped
    ELSE IF l.fragment.some
         THEN Kept(RenderedLink(l.link, l.link_text,
                  primitive_href(primitive_url(location, depth, is_nightly),
                                 l.fragment.val)))
         ELSE Dropped

\* The closure links() hands to filter_map, for one ItemLink: the rendered
\* link, nothing, or the panic.
render_link(l, location, depth, is_nightly, paths) ==
    IF l.did.some
    THEN LET h == href(l.did.val, paths)
         IN IF h.some
            THEN Kept(RenderedLink(l.link, l.link_text,
                     h.val \o (IF l.fragment.some THEN <<HASH>> \o l.fragment.val
                               ELSE <<>>)))
            ELSE Dropped
    ELSE IF l.fragment.some
         THEN Kept(RenderedLink(l.link, l.link_text,
                  primitive_href(primitive_url(location, depth, is_nightly),
                                 l.fragment.val)))
         ELSE Panicked

\* filter_map(..).collect() pushing each rendered link at the front.
RECURSIVE collect_links_reversed(_, _, _, _, _, _)
collect_links_reversed(out, ls, location, depth, is_nightly, paths) ==
    IF ls = <<>> THEN Some(out)
    ELSE LET r == render_link(Head(ls), location, depth, is_nightly, paths)
         IN IF r.fault THEN Fault
            ELSE collect_links_reversed(IF r.kept THEN <<r.link.val>> \o out ELSE out,
                                        Tail(ls), location, depth, is_nightly, paths)

\* self.links.iter().filter_map(..).collect(): the rendered links collected
\* so far in `out`, then those of `ls`; Fault when the closure panics.
RECURSIVE collect_links(_, _, _, _, _, _)
collect_links(out, ls, location, depth, is_nightly, paths) ==
    IF ls = <<>> THEN Some(out)
    ELSE LET r == render_link(Head(ls), location, depth, is_nightly, paths)
         IN IF r.fault THEN Fault
            ELSE collect_links(IF r.kept THEN Append(out, r.link.val) ELSE out,
                               Tail(ls), location, depth, is_nightly, paths)

\* Attributes::links(krate, cache)
links(ls, location, depth, is_nightly, paths) ==
    collect_links(<<>>, ls, location, depth, is_nightly, paths)

\* ---- inputs of links()
FragU == <<"u">>
FragUM == <<"u", HASH, "m">>
FragUMN == <<"u", HASH, "m", HASH, "n">>
RemoteR == <<"r">>
RemoteRSlash == <<"r", SLASH>>

ItemLinkUniverse ==
    { ItemLink(<<"[", f.tag, d.tag, "]">>, <<f.tag, d.tag>>, d.did, f.fragment) :
        d \in { [tag |-> "n", did |-> None], [tag |-> "d", did |-> Some("d1")] },
        f \in { [tag |-> "0", fragment |-> None],
                [tag |-> "1", fragment |-> Some(FragU)],
                [tag |-> "2", fragment |-> Some(FragUM)],
                [tag |-> "3", fragment |-> Some(FragUMN)] } }

LocationUniverse ==
    { None, Some(Local), Some(Remote(RemoteR)), Some(Remote(RemoteRSlash)),
      Some(Unknown) }

\* self.links(krate, cache)
Links ==
    /\ rendered = Unset
    /\ rendered' = links(item_links, extern_location, current_depth, nightly, located)
    /\ UNCHANGED <<item_links, extern_location, current_depth, nightly, located>>
    /\ UNCHANGED <<from_ast_vars, flat_vars, alias_vars, fake_vars, impls_vars, type_vars>>

LinksInit ==
    /\ \E n \in 0..MaxLinks : item_links \in [1..n -> ItemLinkUniverse]
    /\ extern_location \in LocationUniverse
    /\ current_depth \in 0..MaxDepth
    /\ nightly \in BOOLEAN
    /\ located \in {{}, {"d1"}}
    /\ rendered = Unset
    /\ FromAstIdle /\ AliasIdle /\ FakeIdle /\ ImplsIdle /\ TypesIdle

LinksNext == Links

LinksSpec == LinksInit /\ [][LinksNext]_vars

\* ------------------------------------------------------------ fake items
Threads == {"t1", "t2"}
Crates == {"c1", "c2"}
DefId(krate, index) == [krate |-> krate, index |-> index]
DefIds == { DefId(c, i) : c \in Crates, i \in 0..MaxDefIdx }

\* is_fake with a strict comparison.
is_fake_above_mark(tables, thread, def_id) ==
    LET m == tables[thread]
    IN IF m[def_id.krate].some THEN m[def_id.krate].val < def_id.index ELSE FALSE

\* is_fake reading the mark whichever thread recorded it.
is_fake_any_thread(tables, thread, def_id) ==
    \E t \in Threads :
        IF tables[t][def_id.krate].some
        THEN tables[t][def_id.krate].val <= def_id.index ELSE FALSE

\* Item::is_fake on `thread`, whose MAX_DEF_IDX is tables[thread]:
\* m.get(&krate).map(|&idx| idx <= self.def_id.index).unwrap_or(false)
is_fake(tables, thread, def_id) ==
    LET m == tables[thread]
    IN IF m[def_id.krate].some THEN m[def_id.krate].val <= def_id.index ELSE FALSE

\* StabilityLevel
Stable(since) == [level |-> "Stable", since |-> since]
Unstable == [level |-> "Unstable", since |-> ""]

\* The compiler's tables: lookup_stability, lookup_const_stability and
\* lookup_deprecation, each DefId -> Option.
Tables(stab, const_stab, depr) ==
    [stability |-> [d \in DefIds |-> stab],
     const_stability |-> [d \in DefIds |-> const_stab],
     deprecation |-> [d \in DefIds |-> depr]]

TcxUniverse ==
    { Tables(Some(Stable("1.0")), Some(Stable("1.5")), Some("deprecated")),
      Tables(Some(Unstable), Some(Unstable), None),
      Tables(Some(Stable("1.0")), None, None),
      Tables(None, None, None) }

\* A lookup in one of the compiler's tables: [result, lookups].
lookup(table, def_id) ==
    [result |-> tcx[table][def_id], lookups |-> <<<<table, def_id>>>>]
NotLookedUp == [result |-> None, lookups |-> <<>>]

\* A lookup made whether the item is fake or not.
fake_or_lookup_always_looks_up(tables, thread, def_id, table) ==
    lookup(table, def_id)

\* if self.is_fake() { None } else { tcx.lookup_..(self.def_id) }
fake_or_lookup(tables, thread, def_id, table) ==
    IF is_fake(tables, thread, def_id) THEN NotLookedUp ELSE lookup(table, def_id)

\* Item::stability, Item::const_stability, Item::deprecation
stability(tables, thread, def_id) ==
    fake_or_lookup(tables, thread, def_id, "stability")
const_stability(tables, thread, def_id) ==
    fake_or_lookup(tables, thread, def_id, "const_stability")
deprecation(tables, thread, def_id) ==
    fake_or_lookup(tables, thread, def_id, "deprecation")

\* Item::stability_class
stability_class(tables, thread, def_id) ==
    LET s == stability(tables, thread, def_id)
    IN IF ~s.result.some THEN [result |-> None, lookups |-> s.lookups]
       ELSE LET d == deprecation(tables, thread, def_id)
                classes == (IF s.result.val.level = "Unstable" THEN <<"unstable">>
                            ELSE <<>>)
                           \o (IF d.result.some THEN <<"deprecated">> ELSE <<>>)
            IN [result |-> IF classes = <<>> THEN None
                           ELSE IF Len(classes) = 1 THEN Some(classes[1])
                           ELSE Some("unstable deprecated"),
                lookups |-> s.lookups \o d.lookups]

\* match level { Stable { since, .. } => Some(since), Unstable { .. } => None }
since_of(s) ==
    [result |-> IF s.result.some /\ s.result.val.level = "Stable"
                THEN Some(s.result.val.since) ELSE None,
     lookups |-> s.lookups]

\* Item::stable_since, Item::const_stable_since
stable_since(tables, thread, def_id) == since_of(stability(tables, thread, def_id))
const_stable_since(tables, thread, def_id) ==
    since_of(const_stability(tables, thread, def_id))

\* The record of a query that returned on `thread` for the item `def_id`.
Answered(op, thread, def_id, r) ==
    [op |-> op, thread |-> thread, def_id |-> def_id,
     result |-> r.result, lookups |-> r.lookups]

ThreadIdle(t) == IF item_query.op = "none" THEN TRUE ELSE item_query.thread # t

\* The thread records, or raises, the mark of a crate in its MAX_DEF_IDX.
RecordMark ==
    /\ \E t \in Threads, c \in Crates, i \in 0..MaxDefIdx :
         /\ ThreadIdle(t)
         /\ IF max_def_idx[t][c].some THEN max_def_idx[t][c].val < i ELSE TRUE
         /\ max_def_idx' = [max_def_idx EXCEPT ![t][c] = Some(i)]
    /\ UNCHANGED <<tcx, item_query>>
    /\ UNCHANGED <<from_ast_vars, flat_vars, alias_vars, links_vars, impls_vars, type_vars>>

\* item.is_fake()
IsFake ==
    /\ item_query = NoQuery
    /\ \E t \in Threads, d \in DefIds :
         item_query' = Answered("is_fake", t, d,
                                [result |-> is_fake(max_def_idx, t, d), lookups |-> <<>>])
    /\ UNCHANGED <<max_def_idx, tcx>>
    /\ UNCHANGED <<from_ast_vars, flat_vars, alias_vars, links_vars, impls_vars, type_vars>>

\* item.stability(tcx)
Stability ==
    /\ item_query = NoQuery
    /\ \E t \in Threads, d \in DefIds :
         item_query' = Answered("stability", t, d, stability(max_def_idx, t, d))
    /\ UNCHANGED <<max_def_idx, tcx>>
    /\ UNCHANGED <<from_ast_vars, flat_vars, alias_vars, links_vars, impls_vars, type_vars>>

\* item.const_stability(tcx)
ConstStability ==
    /\ item_query = NoQuery
    /\ \E t \in Threads, d \in DefIds :
         item_query' = Answered("const_stability", t, d,
                                const_stability(max_def_idx, t, d))
    /\ UNCHANGED <<max_def_idx, tcx>>
    /\ UNCHANGED <<from_ast_vars, flat_vars, alias_vars, links_vars, impls_vars, type_vars>>

\* item.deprecation(tcx)
Deprecation ==
    /\ item_query = NoQuery
    /\ \E t \in Threads, d \in DefIds :
         item_query' = Answered("deprecation", t, d, deprecation(max_def_idx, t, d))
    /\ UNCHANGED <<max_def_idx, tcx>>
    /\ UNCHANGED <<from_ast_vars, flat_vars, alias_vars, links_vars, impls_vars, type_vars>>

\* item.stability_class(tcx)
StabilityClass ==
    /\ item_query = NoQuery
    /\ \E t \in Threads, d \in DefIds :
         item_query' = Answered("stability_class", t, d,
                                stability_class(max_def_idx, t, d))
    /\ UNCHANGED <<max_def_idx, tcx>>
    /\ UNCHANGED <<from_ast_vars, flat_vars, alias_vars, links_vars, impls_vars, type_vars>>

\* item.stable_since(tcx)
StableSince ==
    /\ item_query = NoQuery
    /\ \E t \in Threads, d \in DefIds :
         item_query' = Answered("stable_since", t, d, stable_since(max_def_idx, t, d))
    /\ UNCHANGED <<max_def_idx, tcx>>
    /\ UNCHANGED <<from_ast_vars, flat_vars, alias_vars, links_vars, impls_vars, type_vars>>

\* item.const_stable_since(tcx)
ConstStableSince ==
    /\ item_query = NoQuery
    /\ \E t \in Threads, d \in DefIds :
         item_query' = Answered("const_stable_since", t, d,
                                const_stable_since(max_def_idx, t, d))
    /\ UNCHANGED <<max_def_idx, tcx>>
    /\ UNCHANGED <<from_ast_vars, flat_vars, alias_vars, links_vars, impls_vars, type_vars>>

\* The caller takes the answer; the thread goes on.
TakeAnswer ==
    /\ item_query # NoQuery
    /\ item_query' = NoQuery
    /\ UNCHANGED <<max_def_idx, tcx>>
    /\ UNCHANGED <<from_ast_vars, flat_vars, alias_vars, links_vars, impls_vars, type_vars>>

\* Every thread starts with an empty MAX_DEF_IDX (Default::default()).
FakeInit ==
    /\ max_def_idx = [t \in Threads |-> [c \in Crates |-> None]]
    /\ tcx \in TcxUniverse
    /\ item_query = NoQuery
    /\ FromAstIdle /\ AliasIdle /\ LinksIdle /\ ImplsIdle /\ TypesIdle

FakeNext ==
    \/ RecordMark
    \/ IsFake
    \/ Stability
    \/ ConstStability
    \/ Deprecation
    \/ StabilityClass
    \/ StableSince
    \/ ConstStableSince
    \/ TakeAnswer

FakeSpec == FakeInit /\ [][FakeNext]_vars

\* ------------------------------------------------- primitive impls table
PrimitiveTypes ==
    {"Isize", "I8", "I16", "I32", "I64", "I128", "Usize", "U8", "U16", "U32",
     "U64", "U128", "F32", "F64", "Char", "Bool", "Str", "Slice", "Array",
     "Tuple", "Unit", "RawPointer", "Reference", "Fn", "Never"}

\* The lang items the table is built from.
ImplLangItems ==
    {"isize_impl", "i8_impl", "i16_impl", "i32_impl", "i64_impl", "i128_impl",
     "usize_impl", "u8_impl", "u16_impl", "u32_impl", "u64_impl", "u128_impl",
     "f32_impl", "f32_runtime_impl", "f64_impl", "f64_runtime_impl",
     "char_impl", "bool_impl", "str_impl", "str_alloc_impl",
     "slice_impl", "slice_u8_impl", "slice_alloc_impl", "slice_u8_alloc_impl",
     "array_impl", "const_ptr_impl", "mut_ptr_impl", "const_slice_ptr_impl",
     "mut_slice_ptr_impl"}

\* lang_items.<name>(): Option<DefId>, as the zero or one element it iterates.
lang_item(defined, name) == IF name \in defined THEN <<name>> ELSE <<>>

\* The map! without the entry of Never.
build_all_impls_without_never(defined) ==
    LET table == [p \in PrimitiveTypes |-> <<>>]
    IN [p \in PrimitiveTypes \ {"Never"} |-> table[p]]

\* The closure handed to get_or_init: the map! of every PrimitiveType to its
\* impls, for the lang items `defined` of the compiler context.
build_all_impls(defined) ==
    LET single(a) == lang_item(defined, a)
        both(a, b) == lang_item(defined, a) \o lang_item(defined, b)
    IN [p \in PrimitiveTypes |->
        CASE p = "Isize" -> single("isize_impl")
          [] p = "I8" -> single("i8_impl")
          [] p = "I16" -> single("i16_impl")
          [] p = "I32" -> single("i32_impl")
          [] p = "I64" -> single("i64_impl")
          [] p = "I128" -> single("i128_impl")
          [] p = "Usize" -> single("usize_impl")
          [] p = "U8" -> single("u8_impl")
          [] p = "U16" -> single("u16_impl")
          [] p = "U32" -> single("u32_impl")
          [] p = "U64" -> single("u64_impl")
          [] p = "U128" -> single("u128_impl")
          [] p = "F32" -> both("f32_impl", "f32_runtime_impl")
          [] p = "F64" -> both("f64_impl", "f64_runtime_impl")
          [] p = "Char" -> single("char_impl")
          [] p = "Bool" -> single("bool_impl")
          [] p = "Str" -> both("str_impl", "str_alloc_impl")
          [] p = "Slice" -> lang_item(defined, "slice_impl")
                            \o lang_item(defined, "slice_u8_impl")
                            \o lang_item(defined, "slice_alloc_impl")
                            \o lang_item(defined, "slice_u8_alloc_impl")
          [] p = "Array" -> single("array_impl")
          [] p = "Tuple" -> <<>>
          [] p = "Unit" -> <<>>
          [] p = "RawPointer" -> lang_item(defined, "const_ptr_impl")
                                 \o lang_item(defined, "mut_ptr_impl")
                                 \o lang_item(defined, "const_slice_ptr_impl")
                                 \o lang_item(defined, "mut_slice_ptr_impl")
          [] p = "Reference" -> <<>>
          [] p = "Fn" -> <<>>
          [] p = "Never" -> <<>>]

\* The compiler contexts a call may pass, by the lang items they define.
TcxLangItems ==
    { ImplLangItems, {}, ImplLangItems \ {"f32_runtime_impl", "slice_u8_impl"} }

\* A thread's call of all_impls, on its own (self is None) or from
\* self.impls(tcx): idle, in get_or_init ("get"), running the closure
\* ("init"), or returned with the table it was handed and, for impls, the
\* entry of self.
IdleCaller == [pc |-> "idle", tcx |-> {}, seen |-> None, self |-> None, ret |-> None]

CellEmpty == [state |-> "Incomplete", value |-> None]

\* all_impls(tcx).get(self).expect("missing impl for primitive type")
impls_get(table, self) ==
    IF self \in DOMAIN table THEN Some(table[self]) ELSE Fault

\* What the call of caller c returns beside the table: nothing for
\* all_impls, the entry of self for impls.
impls_ret(c, table) ==
    IF c.self.some THEN impls_get(table.val, c.self.val) ELSE None

\* PrimitiveType::all_impls(tcx) is called on thread t.
CallAllImpls ==
    /\ \E t \in Threads, x \in TcxLangItems :
         /\ callers[t].pc \in {"idle", "returned"}
         /\ callers' = [callers EXCEPT ![t] = [pc |-> "get", tcx |-> x, seen |-> None,
                                               self |-> None, ret |-> None]]
    /\ UNCHANGED <<cell, closure_runs>>
    /\ UNCHANGED <<from_ast_vars, flat_vars, alias_vars, links_vars, fake_vars, type_vars>>

\* self.impls(tcx) is called on thread t and enters all_impls(tcx).
CallImpls ==
    /\ \E t \in Threads, x \in TcxLangItems, p \in PrimitiveTypes :
         /\ callers[t].pc \in {"idle", "returned"}
         /\ callers' = [callers EXCEPT ![t] = [pc |-> "get", tcx |-> x, seen |-> None,
                                               self |-> Some(p), ret |-> None]]
    /\ UNCHANGED <<cell, closure_runs>>
    /\ UNCHANGED <<from_ast_vars, flat_vars, alias_vars, links_vars, fake_vars, type_vars>>

\* get_or_init finds the cell initialized and returns its value.
GetInitialized ==
    /\ \E t \in Threads :
         /\ callers[t].pc = "get" /\ cell.state = "Complete"
         /\ callers' = [callers EXCEPT ![t].pc = "returned", ![t].seen = cell.value,
                                       ![t].ret = impls_ret(callers[t], cell.value)]
    /\ UNCHANGED <<cell, closure_runs>>
    /\ UNCHANGED <<from_ast_vars, flat_vars, alias_vars, links_vars, fake_vars, type_vars>>

\* get_or_init entering the closure although another thread is inside it.
StartInit_Unsynchronized ==
    /\ \E t \in Threads :
         /\ callers[t].pc = "get" /\ cell.state # "Complete"
         /\ callers' = [callers EXCEPT ![t].pc = "init"]
    /\ cell' = [cell EXCEPT !.state = "Running"]
    /\ closure_runs' = closure_runs + 1
    /\ UNCHANGED <<from_ast_vars, flat_vars, alias_vars, links_vars, fake_vars, type_vars>>

\* get_or_init finds the cell empty and no initializer running: this thread
\* becomes the one that runs the closure; the others wait for it.
StartInit ==
    /\ \E t \in Threads :
         /\ callers[t].pc = "get" /\ cell.state = "Incomplete"
         /\ callers' = [callers EXCEPT ![t].pc = "init"]
    /\ cell' = [cell EXCEPT !.state = "Running"]
    /\ closure_runs' = closure_runs + 1
    /\ UNCHANGED <<from_ast_vars, flat_vars, alias_vars, links_vars, fake_vars, type_vars>>

\* The closure returns the table built from the caller's tcx; the cell
\* stores it and get_or_init returns it.
FinishInit ==
    /\ \E t \in Threads :
         /\ callers[t].pc = "init"
         /\ LET table == Some(build_all_impls(callers[t].tcx))
            IN /\ cell' = [state |-> "Complete", value |-> table]
               /\ callers' = [callers EXCEPT ![t].pc = "returned", ![t].seen = table,
                                             ![t].ret = impls_ret(callers[t], table)]
    /\ UNCHANGED closure_runs
    /\ UNCHANGED <<from_ast_vars, flat_vars, alias_vars, links_vars, fake_vars, type_vars>>

\* static CELL = OnceCell::new(); no thread has called yet.
ImplsInit ==
    /\ cell = CellEmpty
    /\ callers = [t \in Threads |-> IdleCaller]
    /\ closure_runs = 0
    /\ FromAstIdle /\ AliasIdle /\ LinksIdle /\ FakeIdle /\ TypesIdle

ImplsNext ==
    \/ CallAllImpls
    \/ CallImpls
    \/ GetInitialized
    \/ StartInit
    \/ FinishInit

ImplsSpec == ImplsInit /\ [][ImplsNext]_vars

\* --------------------------------------------------- primitive type names
\* Interned symbols: sym::<ident> and kw::<ident>.
Sym(ident) == [ns |-> "sym", ident |-> ident]
Kw(ident) == [ns |-> "kw", ident |-> ident]

\* Symbol::as_str: a sym:: symbol reads as its identifier, a keyword as the
\* keyword it stands for.
symbol_str(s) ==
    IF s.ns = "sym" THEN s.ident
    ELSE CASE s.ident = "Fn" -> "fn"
           [] s.ident = "SelfLower" -> "self"
           [] s.ident = "SelfUpper" -> "Self"
           [] OTHER -> s.ident

\* PrimitiveType::from_symbol
from_symbol(s) ==
    CASE s = Sym("isize") -> Some("Isize")
      [] s = Sym("i8") -> Some("I8")
      [] s = Sym("i16") -> Some("I16")
      [] s = Sym("i32") -> Some("I32")
      [] s = Sym("i64") -> Some("I64")
      [] s = Sym("i128") -> Some("I128")
      [] s = Sym("usize") -> Some("Usize")
      [] s = Sym("u8") -> Some("U8")
      [] s = Sym("u16") -> Some("U16")
      [] s = Sym("u32") -> Some("U32")
      [] s = Sym("u64") -> Some("U64")
      [] s = Sym("u128") -> Some("U128")
      [] s = Sym("bool") -> Some("Bool")
      [] s = Sym("char") -> Some("Char")
      [] s = Sym("str") -> Some("Str")
      [] s = Sym("f32") -> Some("F32")
      [] s = Sym("f64") -> Some("F64")
      [] s = Sym("array") -> Some("Array")
      [] s = Sym("slice") -> Some("Slice")
      [] s = Sym("tuple") -> Some("Tuple")
      [] s = Sym("unit") -> Some("Unit")
      [] s = Sym("pointer") -> Some("RawPointer")
      [] s = Sym("reference") -> Some("Reference")
      [] s = Kw("Fn") -> Some("Fn")
      [] s = Sym("never") -> Some("Never")
      [] OTHER -> None

\* PrimitiveType::as_str
as_str(self) ==
    CASE self = "Isize" -> "isize"
      [] self = "I8" -> "i8"
      [] self = "I16" -> "i16"
      [] self = "I32" -> "i32"
      [] self = "I64" -> "i64"
      [] self = "I128" -> "i128"
      [] self = "Usize" -> "usize"
      [] self = "U8" -> "u8"
      [] self = "U16" -> "u16"
      [] self = "U32" -> "u32"
      [] self = "U64" -> "u64"
      [] self = "U128" -> "u128"
      [] self = "F32" -> "f32"
      [] self = "F64" -> "f64"
      [] self = "Str" -> "str"
      [] self = "Bool" -> "bool"
      [] self = "Char" -> "char"
      [] self = "Array" -> "array"
      [] self = "Slice" -> "slice"
      [] self = "Tuple" -> "tuple"
      [] self = "Unit" -> "unit"
      [] self = "RawPointer" -> "pointer"
      [] self = "Reference" -> "reference"
      [] self = "Fn" -> "fn"
      [] self = "Never" -> "never"

\* PrimitiveType::to_url_str
to_url_str(self) == as_str(self)

\* as_sym naming the trait Fn for the fn primitive.
as_sym_fn_trait(self) ==
    CASE self = "Isize" -> Sym("isize")
      [] self = "I8" -> Sym("i8")
      [] self = "I16" -> Sym("i16")
      [] self = "I32" -> Sym("i32")
      [] self = "I64" -> Sym("i64")
      [] self = "I128" -> Sym("i128")
      [] self = "Usize" -> Sym("usize")
      [] self = "U8" -> Sym("u8")
      [] self = "U16" -> Sym("u16")
      [] self = "U32" -> Sym("u32")
      [] self = "U64" -> Sym("u64")
      [] self = "U128" -> Sym("u128")
      [] self = "F32" -> Sym("f32")
      [] self = "F64" -> Sym("f64")
      [] self = "Str" -> Sym("str")
      [] self = "Bool" -> Sym("bool")
      [] self = "Char" -> Sym("char")
      [] self = "Array" -> Sym("array")
      [] self = "Slice" -> Sym("slice")
      [] self = "Tuple" -> Sym("tuple")
      [] self = "Unit" -> Sym("unit")
      [] self = "RawPointer" -> Sym("pointer")
      [] self = "Reference" -> Sym("reference")
      [] self = "Fn" -> Sym("Fn")
      [] self = "Never" -> Sym("never")

\* PrimitiveType::as_sym
as_sym(self) ==
    CASE self = "Isize" -> Sym("isize")
      [] self = "I8" -> Sym("i8")
      [] self = "I16" -> Sym("i16")
      [] self = "I32" -> Sym("i32")
      [] self = "I64" -> Sym("i64")
      [] self = "I128" -> Sym("i128")
      [] self = "Usize" -> Sym("usize")
      [] self = "U8" -> Sym("u8")
      [] self = "U16" -> Sym("u16")
      [] self = "U32" -> Sym("u32")
      [] self = "U64" -> Sym("u64")
      [] self = "U128" -> Sym("u128")
      [] self = "F32" -> Sym("f32")
      [] self = "F64" -> Sym("f64")
      [] self = "Str" -> Sym("str")
      [] self = "Bool" -> Sym("bool")
      [] self = "Char" -> Sym("char")
      [] self = "Array" -> Sym("array")
      [] self = "Slice" -> Sym("slice")
      [] self = "Tuple" -> Sym("tuple")
      [] self = "Unit" -> Sym("unit")
      [] self = "RawPointer" -> Sym("pointer")
      [] self = "Reference" -> Sym("reference")
      [] self = "Fn" -> Kw("Fn")
      [] self = "Never" -> Sym("never")

\* The symbols from_symbol is given beside those as_sym returns.
OtherSymbols == {Sym("Fn"), Sym("String"), Kw("SelfUpper")}

\* A tag can be asked for its symbol, its name and its URL name; a symbol,
\* the one as_sym returned or another, can be parsed back.
PrimAsSym ==
    /\ ~prim_call.sym.some
    /\ prim_call' = [prim_call EXCEPT !.sym = Some(as_sym(prim_call.self))]
    /\ UNCHANGED <<from_ast_vars, flat_vars, alias_vars, links_vars, fake_vars, impls_vars>>
    /\ UNCHANGED <<fn_call, item_call, attrs_cmp, type_call>>

PrimAsStr ==
    /\ ~prim_call.str.some
    /\ prim_call' = [prim_call EXCEPT !.str = Some(as_str(prim_call.self))]
    /\ UNCHANGED <<from_ast_vars, flat_vars, alias_vars, links_vars, fake_vars, impls_vars>>
    /\ UNCHANGED <<fn_call, item_call, attrs_cmp, type_call>>

PrimToUrlStr ==
    /\ ~prim_call.url.some
    /\ prim_call' = [prim_call EXCEPT !.url = Some(to_url_str(prim_call.self))]
    /\ UNCHANGED <<from_ast_vars, flat_vars, alias_vars, links_vars, fake_vars, impls_vars>>
    /\ UNCHANGED <<fn_call, item_call, attrs_cmp, type_call>>

PrimFromSymbol ==
    /\ ~prim_call.arg.some
    /\ \E s \in OtherSymbols \cup (IF prim_call.sym.some THEN {prim_call.sym.val} ELSE {}) :
         prim_call' = [prim_call EXCEPT !.arg = Some(s), !.parsed = from_symbol(s)]
    /\ UNCHANGED <<from_ast_vars, flat_vars, alias_vars, links_vars, fake_vars, impls_vars>>
    /\ UNCHANGED <<fn_call, item_call, attrs_cmp, type_call>>

PrimInit ==
    /\ \E p \in PrimitiveTypes :
         prim_call = [self |-> p, sym |-> None, str |-> None, url |-> None,
                      arg |-> None, parsed |-> Unset]
    /\ fn_call = <<>> /\ item_call = <<>> /\ attrs_cmp = <<>> /\ type_call = <<>>
    /\ FromAstIdle /\ AliasIdle /\ LinksIdle /\ FakeIdle /\ ImplsIdle

PrimNext ==
    \/ PrimAsSym
    \/ PrimAsStr
    \/ PrimToUrlStr
    \/ PrimFromSymbol

PrimSpec == PrimInit /\ [][PrimNext]_vars

\* ------------------------------------------------------------------ types

\* A clean::Type: its variant, with the fields the queries below read (did
\* of a ResolvedPath, name of a Generic or QPath, the PrimitiveType, lifetime
\* as zero or one name, mutability) and the types it holds, in order.
Ty(tag, did, name, prim, lifetime, mutability, inner) ==
    [tag |-> tag, did |-> did, name |-> name, prim |-> prim,
     lifetime |-> lifetime, mutability |-> mutability, inner |-> inner]
NoSym == [ns |-> "", ident |-> ""]
ResolvedPath(did) == Ty("ResolvedPath", did, NoSym, "", <<>>, "", <<>>)
Generic(name) == Ty("Generic", <<>>, name, "", <<>>, "", <<>>)
Primitive(p) == Ty("Primitive", <<>>, NoSym, p, <<>>, "", <<>>)
BareFunction == Ty("BareFunction", <<>>, NoSym, "", <<>>, "", <<>>)
Tuple(tys) == Ty("Tuple", <<>>, NoSym, "", <<>>, "", tys)
Slice(t) == Ty("Slice", <<>>, NoSym, "", <<>>, "", <<t>>)
Array(t) == Ty("Array", <<>>, NoSym, "", <<>>, "", <<t>>)
Never == Ty("Never", <<>>, NoSym, "", <<>>, "", <<>>)
RawPointer(mutability, t) == Ty("RawPointer", <<>>, NoSym, "", <<>>, mutability, <<t>>)
BorrowedRef(lifetime, mutability, type_) ==
    Ty("BorrowedRef", <<>>, NoSym, "", lifetime, mutability, <<type_>>)
QPath(name, self_type, trait_) ==
    Ty("QPath", <<>>, name, "", <<>>, "", <<self_type, trait_>>)
Infer == Ty("Infer", <<>>, NoSym, "", <<>>, "", <<>>)
ImplTrait == Ty("ImplTrait", <<>>, NoSym, "", <<>>, "", <<>>)

SelfUpper == Kw("SelfUpper")
SelfLower == Kw("SelfLower")

\* Type::primitive_type
primitive_type(self) ==
    LET boxed == self.inner[1]
    IN CASE self.tag = "Primitive" -> Some(self.prim)
         [] self.tag = "BorrowedRef" /\ boxed.tag = "Primitive" -> Some(boxed.prim)
         [] self.tag = "Slice" -> Some("Slice")
         [] self.tag = "BorrowedRef" /\ boxed.tag = "Slice" -> Some("Slice")
         [] self.tag = "Array" -> Some("Array")
         [] self.tag = "BorrowedRef" /\ boxed.tag = "Array" -> Some("Array")
         [] self.tag = "Tuple" -> IF self.inner = <<>> THEN Some("Unit") ELSE Some("Tuple")
         [] self.tag = "RawPointer" -> Some("RawPointer")
         [] self.tag = "BorrowedRef" /\ boxed.tag = "Generic" -> Some("Reference")
         [] self.tag = "BareFunction" -> Some("Fn")
         [] self.tag = "Never" -> Some("Never")
         [] OTHER -> None

\* Type::is_self_type
is_self_type(self) == self.tag = "Generic" /\ self.name = SelfUpper

\* cache.primitive_locations.get(&p).cloned()
primitive_location(c, p) == IF p \in DOMAIN c THEN Some(c[p]) ELSE None

RECURSIVE inner_def_id(_, _)

\* inner_def_id answering Reference for every borrowed reference.
inner_def_id_every_reference(self, cache) ==
    LET primitive(t) ==
            IF cache.some
            THEN [ret |-> primitive_location(cache.val, t), calls |-> 2]
            ELSE [ret |-> None, calls |-> 1]
        through(t) ==
            LET r == inner_def_id(t, cache)
            IN [ret |-> r.ret, calls |-> r.calls + 1]
    IN CASE self.tag = "ResolvedPath" -> [ret |-> Some(self.did), calls |-> 1]
         [] self.tag = "Primitive" ->
              [ret |-> IF cache.some THEN primitive_location(cache.val, self.prim)
                       ELSE None,
               calls |-> 1]
         [] self.tag = "BorrowedRef" -> primitive("Reference")
         [] self.tag = "Tuple" ->
              IF self.inner = <<>> THEN primitive("Unit") ELSE primitive("Tuple")
         [] self.tag = "BareFunction" -> primitive("Fn")
         [] self.tag = "Never" -> primitive("Never")
         [] self.tag = "Slice" -> primitive("Slice")
         [] self.tag = "Array" -> primitive("Array")
         [] self.tag = "RawPointer" -> primitive("RawPointer")
         [] self.tag = "QPath" -> through(self.inner[1])
         [] OTHER -> [ret |-> None, calls |-> 1]

\* Type::inner_def_id(cache: Option<&Cache>): what it returns and how many
\* calls of inner_def_id it took, this one included. A variant that stands
\* for a primitive asks Primitive(t).def_id_full(c), one more call, when
\* there is a cache.
inner_def_id(self, cache) ==
    LET primitive(t) ==
            IF cache.some
            THEN [ret |-> primitive_location(cache.val, t), calls |-> 2]
            ELSE [ret |-> None, calls |-> 1]
        through(t) ==
            LET r == inner_def_id(t, cache)
            IN [ret |-> r.ret, calls |-> r.calls + 1]
    IN CASE self.tag = "ResolvedPath" -> [ret |-> Some(self.did), calls |-> 1]
         [] self.tag = "Primitive" ->
              [ret |-> IF cache.some THEN primitive_location(cache.val, self.prim)
                       ELSE None,
               calls |-> 1]
         [] self.tag = "BorrowedRef" /\ self.inner[1].tag = "Generic" ->
              primitive("Reference")
         [] self.tag = "BorrowedRef" /\ self.inner[1].tag # "Generic" ->
              through(self.inner[1])
         [] self.tag = "Tuple" ->
              IF self.inner = <<>> THEN primitive("Unit") ELSE primitive("Tuple")
         [] self.tag = "BareFunction" -> primitive("Fn")
         [] self.tag = "Never" -> primitive("Never")
         [] self.tag = "Slice" -> primitive("Slice")
         [] self.tag = "Array" -> primitive("Array")
         [] self.tag = "RawPointer" -> primitive("RawPointer")
         [] self.tag = "QPath" -> through(self.inner[1])
         [] OTHER -> [ret |-> None, calls |-> 1]

\* impl GetDefId for Type
def_id(self) == inner_def_id(self, None)
def_id_full(self, cache) == inner_def_id(self, Some(cache))

\* The types the queries are asked of: the variants that hold no type, and
\* every variant that holds one around the types one level shallower.
LeafTypes ==
    {ResolvedPath(<<"c1", "d1">>), Generic(Sym("T")), Generic(SelfUpper),
     Primitive("U8"), Primitive("Str"), BareFunction, Tuple(<<>>), Never,
     Infer, ImplTrait}

RECURSIVE TypesOfDepth(_)
TypesOfDepth(d) ==
    IF d = 0 THEN LeafTypes
    ELSE LET T == TypesOfDepth(d - 1)
         IN LeafTypes
            \cup {BorrowedRef(<<>>, "Not", t) : t \in T}
            \cup {Slice(t) : t \in T}
            \cup {Array(t) : t \in T}
            \cup {RawPointer("Mut", t) : t \in T}
            \cup {Tuple(<<t>>) : t \in T}
            \cup {QPath(Sym("Name"), t, ResolvedPath(<<"c1", "d1">>)) : t \in T}

\* Cache::primitive_locations: no primitive recorded, some, or all of them.
PrimitiveLocations ==
    { [p \in {} |-> <<>>],
      [p \in {"U8", "Slice", "Unit", "Reference"} |-> <<"std", p>>],
      [p \in PrimitiveTypes |-> <<"std", p>>] }

\* One query of the Type in type_call, each asked once.
TypePrimitiveType ==
    /\ "primitive_type" \notin type_call.asked
    /\ type_call' = [type_call EXCEPT
                        !.asked = @ \cup {"primitive_type"},
                        !.primitive_type = primitive_type(type_call.self)]
    /\ UNCHANGED <<from_ast_vars, flat_vars, alias_vars, links_vars, fake_vars, impls_vars>>
    /\ UNCHANGED <<prim_call, fn_call, item_call, attrs_cmp>>

TypeDefId ==
    /\ "def_id" \notin type_call.asked
    /\ type_call' = [type_call EXCEPT
                        !.asked = @ \cup {"def_id"},
                        !.def_id = def_id(type_call.self)]
    /\ UNCHANGED <<from_ast_vars, flat_vars, alias_vars, links_vars, fake_vars, impls_vars>>
    /\ UNCHANGED <<prim_call, fn_call, item_call, attrs_cmp>>

TypeDefIdFull ==
    /\ "def_id_full" \notin type_call.asked
    /\ type_call' = [type_call EXCEPT
                        !.asked = @ \cup {"def_id_full"},
                        !.def_id_full = def_id_full(type_call.self, type_call.cache)]
    /\ UNCHANGED <<from_ast_vars, flat_vars, alias_vars, links_vars, fake_vars, impls_vars>>
    /\ UNCHANGED <<prim_call, fn_call, item_call, attrs_cmp>>

NotAsked == [ret |-> None, calls |-> 0]

TypeInit ==
    /\ \E t \in TypesOfDepth(MaxTypeDepth), c \in PrimitiveLocations :
         type_call = [self |-> t, cache |-> c, asked |-> {}, primitive_type |-> None,
                      def_id |-> NotAsked, def_id_full |-> NotAsked]
    /\ prim_call = <<>> /\ fn_call = <<>> /\ item_call = <<>> /\ attrs_cmp = <<>>
    /\ FromAstIdle /\ AliasIdle /\ LinksIdle /\ FakeIdle /\ ImplsIdle

TypeNext ==
    \/ TypePrimitiveType
    \/ TypeDefId
    \/ TypeDefIdFull

TypeSpec == TypeInit /\ [][TypeNext]_vars

\* ------------------------------------------------------------- self types

\* A function argument and the three ways it can be a receiver.
Argument(type_, name) == [type_ |-> type_, name |-> name]
SelfValue == [tag |-> "SelfValue", lifetime |-> <<>>, mutability |-> "", type_ |-> <<>>]
SelfBorrowed(lifetime, mutability) ==
    [tag |-> "SelfBorrowed", lifetime |-> lifetime, mutability |-> mutability,
     type_ |-> <<>>]
SelfExplicit(type_) ==
    [tag |-> "SelfExplicit", lifetime |-> <<>>, mutability |-> "", type_ |-> <<type_>>]

\* Argument::to_self
to_self(self) ==
    IF self.name # SelfLower THEN None
    ELSE IF is_self_type(self.type_) THEN Some(SelfValue)
    ELSE IF self.type_.tag = "BorrowedRef" /\ is_self_type(self.type_.inner[1])
         THEN Some(SelfBorrowed(self.type_.lifetime, self.type_.mutability))
         ELSE Some(SelfExplicit(self.type_))

\* self_type classifying the first argument named self, wherever it stands.
RECURSIVE self_type_any_argument(_)
self_type_any_argument(inputs) ==
    IF inputs = <<>> THEN None
    ELSE IF to_self(Head(inputs)).some THEN to_self(Head(inputs))
    ELSE self_type_any_argument(Tail(inputs))

\* FnDecl::self_type: self.inputs.values.get(0).and_then(|v| v.to_self())
self_type(inputs) ==
    IF inputs = <<>> THEN None ELSE to_self(inputs[1])

\* The types and names of the arguments asked about.
ArgumentTypes ==
    {Generic(SelfUpper), Generic(Sym("T")),
     BorrowedRef(<<>>, "Not", Generic(SelfUpper)),
     BorrowedRef(<<"'a">>, "Mut", Generic(SelfUpper)),
     BorrowedRef(<<>>, "Mut", Generic(Sym("T"))),
     BorrowedRef(<<>>, "Not", BorrowedRef(<<>>, "Not", Generic(SelfUpper))),
     ResolvedPath(<<"c1", "d1">>), Primitive("U8")}
Arguments == {Argument(t, n) : t \in ArgumentTypes, n \in {SelfLower, Sym("x")}}

RECURSIVE ArgumentLists(_)
ArgumentLists(n) ==
    IF n = 0 THEN {<<>>}
    ELSE LET shorter == ArgumentLists(n - 1)
         IN shorter \cup {Append(l, a) : l \in shorter, a \in Arguments}

\* to_self is asked of one argument of the declaration.
ArgumentToSelf ==
    /\ fn_call.arg = 0
    /\ \E i \in 1..Len(fn_call.inputs) :
         fn_call' = [fn_call EXCEPT !.arg = i, !.to_self = to_self(fn_call.inputs[i])]
    /\ UNCHANGED <<from_ast_vars, flat_vars, alias_vars, links_vars, fake_vars, impls_vars>>
    /\ UNCHANGED <<prim_call, item_call, attrs_cmp, type_call>>

\* self_type is asked of the declaration.
FnDeclSelfType ==
    /\ ~fn_call.asked
    /\ fn_call' = [fn_call EXCEPT !.asked = TRUE, !.self_type = self_type(fn_call.inputs)]
    /\ UNCHANGED <<from_ast_vars, flat_vars, alias_vars, links_vars, fake_vars, impls_vars>>
    /\ UNCHANGED <<prim_call, item_call, attrs_cmp, type_call>>

FnInit ==
    /\ \E l \in ArgumentLists(MaxArgs) :
         fn_call = [inputs |-> l, arg |-> 0, to_self |-> None,
                    asked |-> FALSE, self_type |-> None]
    /\ prim_call = <<>> /\ item_call = <<>> /\ attrs_cmp = <<>> /\ type_call = <<>>
    /\ FromAstIdle /\ AliasIdle /\ LinksIdle /\ FakeIdle /\ ImplsIdle

FnNext ==
    \/ ArgumentToSelf
    \/ FnDeclSelfType

FnSpec == FnInit /\ [][FnNext]_vars

\* ------------------------------------------------------------ inner items

\* An ItemKind: its variant, for a VariantItem which Variant it holds, the
\* items it owns (fields, variants or items) and, for a StrippedItem, the
\* kind in its box.
ItemKind(tag, variant, items, boxed) ==
    [tag |-> tag, variant |-> variant, items |-> items, boxed |-> boxed]

RECURSIVE inner_items(_)

\* inner_items looking into the box of a StrippedItem.
inner_items_of_stripped(self) ==
    CASE self.tag = "StructItem" -> self.items
      [] self.tag = "UnionItem" -> self.items
      [] self.tag = "VariantItem" /\ self.variant = "Struct" -> self.items
      [] self.tag = "EnumItem" -> self.items
      [] self.tag = "TraitItem" -> self.items
      [] self.tag = "ImplItem" -> self.items
      [] self.tag = "ModuleItem" -> self.items
      [] self.tag = "StrippedItem" -> inner_items(self.boxed[1])
      [] OTHER -> <<>>

\* ItemKind::inner_items, as the sequence its iterator yields.
inner_items(self) ==
    CASE self.tag = "StructItem" -> self.items
      [] self.tag = "UnionItem" -> self.items
      [] self.tag = "VariantItem" /\ self.variant = "Struct" -> self.items
      [] self.tag = "EnumItem" -> self.items
      [] self.tag = "TraitItem" -> self.items
      [] self.tag = "ImplItem" -> self.items
      [] self.tag = "ModuleItem" -> self.items
      [] OTHER -> <<>>

\* The kinds that own items, and the kinds that own none.
OwnerTags == {"StructItem", "UnionItem", "EnumItem", "TraitItem", "ImplItem", "ModuleItem"}
OtherTags ==
    {"ExternCrateItem", "ImportItem", "FunctionItem", "TypedefItem", "OpaqueTyItem",
     "StaticItem", "ConstantItem", "TraitAliasItem", "TyMethodItem", "MethodItem",
     "StructFieldItem", "ForeignFunctionItem", "ForeignStaticItem", "ForeignTypeItem",
     "MacroItem", "ProcMacroItem", "PrimitiveItem", "AssocConstItem", "AssocTypeItem",
     "KeywordItem"}

RECURSIVE ItemLists(_)
ItemLists(n) ==
    IF n = 0 THEN {<<>>}
    ELSE LET shorter == ItemLists(n - 1)
         IN shorter \cup {Append(l, i) : l \in shorter, i \in {"i1", "i2"}}

UnstrippedKinds ==
    {ItemKind(t, "", l, <<>>) : t \in OwnerTags, l \in ItemLists(MaxChildren)}
    \cup {ItemKind("VariantItem", "Struct", l, <<>>) : l \in ItemLists(MaxChildren)}
    \cup {ItemKind("VariantItem", v, <<>>, <<>>) : v \in {"CLike", "Tuple"}}
    \cup {ItemKind(t, "", <<>>, <<>>) : t \in OtherTags}
ItemKinds ==
    UnstrippedKinds \cup {ItemKind("StrippedItem", "", <<>>, <<k>>) : k \in UnstrippedKinds}

\* inner_items(&self) is called and its iterator collected, up to twice.
InnerItems ==
    /\ item_call.calls < 2
    /\ item_call' = [item_call EXCEPT
                        !.calls = @ + 1,
                        !.earlier = item_call.ret,
                        !.ret = Some(inner_items(item_call.self))]
    /\ UNCHANGED <<from_ast_vars, flat_vars, alias_vars, links_vars, fake_vars, impls_vars>>
    /\ UNCHANGED <<prim_call, fn_call, attrs_cmp, type_call>>

ItemInit ==
    /\ \E k \in ItemKinds :
         item_call = [self |-> k, calls |-> 0, earlier |-> None, ret |-> None]
    /\ prim_call = <<>> /\ fn_call = <<>> /\ attrs_cmp = <<>> /\ type_call = <<>>
    /\ FromAstIdle /\ AliasIdle /\ LinksIdle /\ FakeIdle /\ ImplsIdle

ItemNext == InnerItems

ItemSpec == ItemInit /\ [][ItemNext]_vars

\* ------------------------------------------------- Attributes == and hash
\* A non-doc attribute with the AttrId the parser gave it.
with_id(attr, id) ==
    [f \in DOMAIN attr \cup {"id"} |-> IF f = "id" THEN id ELSE attr[f]]

\* self.other_attrs.iter().map(|attr| attr.id)
attr_ids(others) == [i \in 1..Len(others) |-> others[i].id]

\* impl PartialEq for Attributes
attributes_eq(self, rhs) ==
    /\ self.doc_strings = rhs.doc_strings
    /\ opt_eq(self.cfg, rhs.cfg)
    /\ opt_eq(self.span, rhs.span)
    /\ self.links = rhs.links
    /\ attr_ids(self.other_attrs) = attr_ids(rhs.other_attrs)

\* A hash that feeds every field, as a derived one would.
attributes_hash_every_field(self) ==
    [doc_strings |-> self.doc_strings,
     cfg |-> IF self.cfg.some THEN <<self.cfg.val>> ELSE <<>>,
     span |-> IF self.span.some THEN <<self.span.val>> ELSE <<>>,
     links |-> self.links,
     other_attrs |-> <<self.other_attrs, self.inner_docs>>]

\* impl Hash for Attributes: what is fed to the hasher, in order; the hash
\* is a function of it. An Option feeds its value if it has one.
attributes_hash(self) ==
    [doc_strings |-> self.doc_strings,
     cfg |-> IF self.cfg.some THEN <<self.cfg.val>> ELSE <<>>,
     span |-> IF self.span.some THEN <<self.span.val>> ELSE <<>>,
     links |-> self.links,
     other_attrs |-> attr_ids(self.other_attrs)]

\* The Attributes values compared: every field takes two values or more.
AttributesUniverse ==
    { [doc_strings |-> d, other_attrs |-> o, cfg |-> c, span |-> p, links |-> l,
       inner_docs |-> i] :
        d \in { <<>>, <<DocFragment(0, <<1, "attr">>, None, TextA, SugaredDoc, FALSE, 0)>> },
        o \in { <<>>,
                <<with_id(WordAttr("inline"), 1)>>,
                <<with_id(WordAttr("cold"), 1)>>,
                <<with_id(WordAttr("inline"), 2)>>,
                <<with_id(WordAttr("inline"), 1), with_id(WordAttr("cold"), 2)>> },
        c \in { None, Some(target_feature_cfg("avx")) },
        p \in { None, Some(<<1, "attr">>) },
        l \in { <<>>, <<ItemLink(<<"[", "d", "]">>, <<"d">>, Some("d1"), None)>> },
        i \in BOOLEAN }

\* self == rhs is evaluated.
AttributesEq ==
    /\ "eq" \notin attrs_cmp.asked
    /\ attrs_cmp' = [attrs_cmp EXCEPT
                        !.asked = @ \cup {"eq"},
                        !.eq = attributes_eq(attrs_cmp.self, attrs_cmp.rhs)]
    /\ UNCHANGED <<from_ast_vars, flat_vars, alias_vars, links_vars, fake_vars, impls_vars>>
    /\ UNCHANGED <<prim_call, fn_call, item_call, type_call>>

\* Both values are hashed with hashers in the same state.
AttributesHash ==
    /\ "hash" \notin attrs_cmp.asked
    /\ attrs_cmp' = [attrs_cmp EXCEPT
                        !.asked = @ \cup {"hash"},
                        !.self_hash = <<attributes_hash(attrs_cmp.self)>>,
                        !.rhs_hash = <<attributes_hash(attrs_cmp.rhs)>>]
    /\ UNCHANGED <<from_ast_vars, flat_vars, alias_vars, links_vars, fake_vars, impls_vars>>
    /\ UNCHANGED <<prim_call, fn_call, item_call, type_call>>

EqInit ==
    /\ \E a \in AttributesUniverse, b \in AttributesUniverse :
         attrs_cmp = [self |-> a, rhs |-> b, asked |-> {}, eq |-> FALSE,
                      self_hash |-> <<>>, rhs_hash |-> <<>>]
    /\ prim_call = <<>> /\ fn_call = <<>> /\ item_call = <<>> /\ type_call = <<>>
    /\ FromAstIdle /\ AliasIdle /\ LinksIdle /\ FakeIdle /\ ImplsIdle

EqNext ==
    \/ AttributesEq
    \/ AttributesHash

EqSpec == EqInit /\ [][EqNext]_vars

\* ====================================================================
\* Properties
\* ====================================================================
is_prefix(p, s) == Len(p) <= Len(s) /\ SubSeq(s, 1, Len(p)) = p
opt_str(o) == IF o.some THEN o.val ELSE <<>>
Returned == pc = "done"

\* C1: for every Attributes value from_ast returns, the string doc_value
\* returns (None read as the empty string) is a prefix of the string
\* collapsed_doc_value returns.
C1_DocValueIsPrefix ==
    (Returned /\ dv # Unset /\ cdv # Unset) =>
        /\ dv # Fault /\ cdv # Fault
        /\ is_prefix(opt_str(dv), opt_str(cdv))

\* A returned value of three fragments where doc_value stopped early: its
\* string is a proper, non-empty prefix of the collapsed one.
C1_Witness ==
    /\ Returned /\ dv.some /\ cdv.some
    /\ Len(result.doc_strings) = 3
    /\ additional_attrs.some
    /\ Len(dv.val) < Len(cdv.val)

\* The fragments doc_value emits: the first, then the following ones while
\* kind and parent_module equal the first's; the first alone when it is an Include.
same_block(f, ori) == f.kind = ori.kind /\ f.parent_module = ori.parent_module
emitted_count(strings) ==
    IF is_include(strings[1].kind) THEN 1
    ELSE CHOOSE k \in 1..Len(strings) :
            /\ \A i \in 1..k : same_block(strings[i], strings[1])
            /\ (k < Len(strings) => ~same_block(strings[k + 1], strings[1]))

RECURSIVE concat_fragments(_)
concat_fragments(strings) ==
    IF strings = <<>> THEN <<>>
    ELSE add_doc_fragment(<<>>, Head(strings)).out \o concat_fragments(Tail(strings))

\* C5: doc_value emits the first fragment and every following fragment up to,
\* not including, the first whose kind or parent_module differs from the
\* first's, only the first when it is an Include, and nothing of any later
\* fragment; an empty result is None.
C5_DocValueStops ==
    (Returned /\ dv # Unset) =>
        IF result.doc_strings = <<>> THEN dv = None
        ELSE LET k == emitted_count(result.doc_strings)
                 text == concat_fragments(SubSeq(result.doc_strings, 1, k))
             IN dv = IF text = <<>> THEN None ELSE Some(text)

\* doc_value stopped after two fragments of a re-export, before the item's own.
C5_Witness ==
    /\ Returned /\ dv.some
    /\ Len(result.doc_strings) = 3
    /\ emitted_count(result.doc_strings) = 2
    /\ result.doc_strings[3].kind = result.doc_strings[1].kind
    /\ result.doc_strings[3].parent_module # result.doc_strings[1].parent_module

\* Whether clean_attr makes a fragment of the attribute.
makes_fragment(a) ==
    \/ a.doc_str.some
    \/ a.name = "doc" /\ ~a.cfg.some /\ a.include.some

fragment_origin(a, pm) == [span |-> a.span, parent_module |-> pm]

\* C8: in doc_strings every fragment of the re-export's additional attributes
\* (parent_module Some(id)) comes before every fragment of the item's own
\* attributes (parent_module None), each group in declaration order.
C8_ReexportFirst ==
    Returned =>
        LET add == IF additional_attrs.some THEN additional_attrs.val.attrs ELSE <<>>
            addf == SelectSeq(add, makes_fragment)
            ownf == SelectSeq(attrs, makes_fragment)
            expected ==
                [i \in 1..Len(addf) |->
                    fragment_origin(addf[i], Some(additional_attrs.val.id))]
                \o [i \in 1..Len(ownf) |-> fragment_origin(ownf[i], None)]
        IN [i \in 1..Len(result.doc_strings) |->
               fragment_origin(result.doc_strings[i], result.doc_strings[i].parent_module)]
           = expected

\* Two re-export fragments followed by one of the item's own.
C8_Witness ==
    /\ Returned
    /\ Len(result.doc_strings) = 3
    /\ result.doc_strings[2].parent_module.some
    /\ ~result.doc_strings[3].parent_module.some

\* The texts joined with one newline between each pair, none after the last.
RECURSIVE join_with_newline(_)
join_with_newline(texts) ==
    IF texts = <<>> THEN <<>>
    ELSE IF Len(texts) = 1 THEN texts[1]
    ELSE texts[1] \o <<NL>> \o join_with_newline(Tail(texts))

no_carriage_return(t) == \A i \in 1..Len(t) : t[i] # CR

\* The text without its final newline, when it ends with one.
without_final_newline(t) ==
    IF Len(t) > 0 /\ t[Len(t)] = NL THEN SubSeq(t, 1, Len(t) - 1) ELSE t

\* The item's own attributes are two or more doc comments of one kind, and
\* no re-export contributes.
SameKindOwnDocs ==
    /\ ~additional_attrs.some
    /\ Len(attrs) >= 2
    /\ \A i \in 1..Len(attrs) :
         /\ attrs[i].doc_str.some
         /\ attrs[i].is_doc_comment = attrs[1].is_doc_comment

own_texts == [i \in 1..Len(attrs) |-> attrs[i].doc_str.val]

\* C3 as the claim states it: the collapsed text of same-kind doc comments
\* of one item is the texts themselves joined with exactly one newline
\* between each pair and none after the last.
C3_TextsJoinedVerbatim ==
    (Returned /\ cdv # Unset /\ SameKindOwnDocs) =>
        cdv = Some(join_with_newline(own_texts))

\* C3, amended: the collapsed text of same-kind doc comments of one item is
\* the texts, each without its final line terminator, joined with exactly one
\* newline between each pair and none after the last; texts a and b that end
\* with no terminator give exactly "a\nb".
C3_TextsJoinedByOneNewline ==
    (Returned /\ cdv # Unset /\ SameKindOwnDocs
        /\ \A i \in 1..Len(attrs) : no_carriage_return(own_texts[i])) =>
        cdv = Some(join_with_newline(
                     [i \in 1..Len(attrs) |-> without_final_newline(own_texts[i])]))

\* Three sugared comments of one item, the first ending with a newline.
C3_Witness ==
    /\ Returned /\ cdv.some /\ SameKindOwnDocs
    /\ Len(attrs) = 3
    /\ own_texts[1] = TextBNl /\ own_texts[2] = TextA
    /\ cdv.val = <<"b", NL, "a", NL, "a">>

\* How many fragments came through the re-export.
reexported_count(strings) ==
    Cardinality({i \in 1..Len(strings) : strings[i].parent_module.some})

is_doc_comment_kind(k) == k = SugaredDoc \/ k = RawDoc

\* C4: when from_ast receives doc comments with text from two origin modules, the
\* collapsed text has an empty line where the fragments of the re-export's
\* module end and the item's own begin: the line after the last line of the
\* first module's text is blank.
C4_BlankLineAtModuleBoundary ==
    (/\ Returned
     /\ cdv # Unset
     /\ (\A i \in 1..Len(result.doc_strings) :
            /\ is_doc_comment_kind(result.doc_strings[i].kind)
            /\ has_non_whitespace(result.doc_strings[i].doc))
     /\ reexported_count(result.doc_strings) > 0
     /\ reexported_count(result.doc_strings) < Len(result.doc_strings)) =>
        LET k == reexported_count(result.doc_strings)
            before == lines(from_iter(SubSeq(result.doc_strings, 1, k)).out)
            all == lines(cdv.val)
        IN /\ Len(all) > Len(before)
           /\ all[Len(before) + 1] = <<>>

\* The predicates clean_attr folds from a part of the stream.
parsed_cfgs(part) ==
    { part[i].attr.cfg.val.cfg : i \in
        { j \in 1..Len(part) :
            /\ ~part[j].attr.doc_str.some /\ part[j].attr.name = "doc"
            /\ part[j].attr.cfg.some /\ part[j].attr.cfg.val.ok } }

\* The features of every target_feature(enable = "feat") of the attributes.
enabled_features(as) ==
    UNION { { as[i].list.val[j].value_str.val : j \in
                { n \in 1..Len(as[i].list.val) :
                    /\ as[i].list.val[n].name = "enable"
                    /\ as[i].list.val[n].value_str.some } } :
            i \in { m \in 1..Len(as) : as[m].name = "target_feature" /\ as[m].list.some } }

conjunction(cfgs) == UNION cfgs

\* C9: the cfg from_ast stores is the conjunction, from the tautology, of
\* every successfully parsed doc(cfg(..)) predicate and of target_feature =
\* "feat" for every target_feature(enable = "feat") of the item; it is None
\* exactly when that conjunction is the tautology.
C9_CfgIsConjunction ==
    Returned =>
        LET all == conjunction(parsed_cfgs(stream)
                       \cup { target_feature_cfg(f) : f \in enabled_features(attrs) })
        IN /\ result.cfg.some <=> all # CfgTrue
           /\ result.cfg.some => result.cfg.val = all

\* doc(cfg(unix)) and target_feature(enable = "avx2") on one item.
C9_Witness ==
    /\ Returned /\ result.cfg.some
    /\ ~additional_attrs.some
    /\ result.cfg.val = {<<"unix">>, <<"target_feature", "avx2">>}

cleaned == SubSeq(stream, 1, idx - 1)

is_parse_error(e) ==
    /\ ~e.attr.doc_str.some /\ e.attr.name = "doc"
    /\ e.attr.cfg.some /\ ~e.attr.cfg.val.ok

kept_attr(e) == ~e.attr.doc_str.some

\* C10: a doc(cfg(..)) predicate that fails to parse is reported once, at the
\* error's span, and leaves the running predicate as it was; every remaining
\* attribute is still processed and from_ast returns its record.
C10_ParseErrorIsSkipped ==
    (pc \in {"clean", "done"}) =>
        /\ LET errs == SelectSeq(cleaned, is_parse_error)
           IN diagnostics = [i \in 1..Len(errs) |-> errs[i].attr.cfg.val.span]
        /\ pc = "clean" => cfg = conjunction(parsed_cfgs(cleaned))
        /\ Returned =>
             /\ idx = Len(stream) + 1
             /\ result # Unset
             /\ LET kept == SelectSeq(stream, kept_attr)
                IN result.other_attrs = [i \in 1..Len(kept) |-> kept[i].attr]

\* A valid predicate, then a malformed one, then a valid one: one diagnostic,
\* and the record holds the conjunction of the valid ones.
C10_Witness ==
    /\ Returned /\ Len(stream) = 3
    /\ ~is_parse_error(stream[1]) /\ is_parse_error(stream[2]) /\ ~is_parse_error(stream[3])
    /\ diagnostics = <<stream[2].attr.cfg.val.span>>
    /\ result.cfg.some /\ result.cfg.val = {<<"unix">>, <<"target_feature", "avx2">>}

\* ----------------------------------------------------------- inner_docs
\* The attributes of `as` that carry documentation text, by position.
doc_positions(as) == {i \in 1..Len(as) : as[i].doc_str.some}

\* Whether the first attribute of `as` carrying documentation text is written
\* in inner style; TRUE when none carries any.
first_doc_is_inner(as) ==
    IF doc_positions(as) = {} THEN TRUE
    ELSE LET first == CHOOSE i \in doc_positions(as) :
                         \A j \in doc_positions(as) : i <= j
         IN as[first].style = "Inner"

\* C11 as the claim states it: inner_docs is true exactly when the first
\* attribute carrying documentation text in the processed stream, the
\* re-export's attributes first and then the item's own, is written in
\* inner style, and true when no attribute of the stream carries any.
C11_InnerDocsOfStream ==
    Returned =>
        result.inner_docs =
            first_doc_is_inner([i \in 1..Len(stream) |-> stream[i].attr])

\* C11, amended: inner_docs is true exactly when the first of the item's own
\* attributes carrying documentation text is written in inner style, and
\* true when none of the item's own attributes carries any; the attributes a
\* re-export contributes are not looked at.
C11_InnerDocsOfOwn ==
    Returned => result.inner_docs = first_doc_is_inner(attrs)

\* A re-export contributing an outer doc comment to an item whose own first
\* documentation is written in inner style.
C11_Witness ==
    /\ Returned /\ additional_attrs.some
    /\ doc_positions(additional_attrs.val.attrs) # {}
    /\ ~first_doc_is_inner(additional_attrs.val.attrs)
    /\ doc_positions(attrs) # {}
    /\ result.inner_docs

\* ------------------------------------------------------ get_doc_aliases
AliasesReturned == aliases.some

\* The strings some alias entry of a doc attribute of `others` gives.
alias_strings(others) ==
    UNION { { others[i].list.val[j].value_str.val : j \in
                { n \in 1..Len(others[i].list.val) :
                    /\ others[i].list.val[n].name = "alias"
                    /\ others[i].list.val[n].value_str.some } } :
            i \in { k \in 1..Len(others) :
                      others[k].name = "doc" /\ others[k].list.some } }

AliasExample == <<at_position(
    DocListAttr(<<AliasItem("foo"), AliasItem(""), AliasItem("foo")>>), 1)>>

\* C12: get_doc_aliases returns the set of the non-empty strings given by
\* the alias entries of the doc attributes, never the empty string; for
\* doc(alias "foo", alias "", alias "foo") it returns exactly {"foo"}.
C12_AliasesNonEmptyDeduplicated ==
    AliasesReturned =>
        /\ aliases.val = alias_strings(alias_attrs) \ {""}
        /\ "" \notin aliases.val
        /\ alias_attrs = AliasExample => aliases.val = {"foo"}

\* The aliases of the example attribute.
C12_Witness ==
    /\ AliasesReturned
    /\ alias_attrs = AliasExample
    /\ aliases.val = {"foo"}
    /\ Cardinality(aliases.val) = 1

\* ---------------------------------------------------------------- links
LinksCalled == rendered # Unset
LinksFaulted == ~rendered.some /\ rendered.val = <<"!">>

\* A record with a target identifier the cache cannot locate.
is_unlocated(l) == l.did.some /\ l.did.val \notin located
not_unlocated(l) == ~is_unlocated(l)
\* A record with neither a target identifier nor a fragment.
is_unlinked(l) == ~l.did.some /\ ~l.fragment.some
\* A record of a primitive: no target identifier, a fragment.
is_primitive_link(l) == ~l.did.some /\ l.fragment.some
has_unlinked == \E i \in 1..Len(item_links) : is_unlinked(item_links[i])

\* The records links() renders, in input order.
rendered_records == SelectSeq(item_links, not_unlocated)

\* C13: links returns one rendered link per record, in input order, for the
\* records left after dropping exactly those whose target identifier the
\* cache cannot locate, each carrying its record's original text and link
\* text; a record with an unlocatable target raises no error.
C13_LinksKeepOrderDropUnlocated ==
    LinksCalled =>
        /\ LinksFaulted => has_unlinked
        /\ rendered.some =>
             /\ Len(rendered.val) = Len(rendered_records)
             /\ \A i \in 1..Len(rendered.val) :
                  /\ rendered.val[i].original_text = rendered_records[i].link
                  /\ rendered.val[i].new_text = rendered_records[i].link_text

\* An unlocatable record followed by a primitive one: one rendered link.
C13_Witness ==
    /\ LinksCalled /\ rendered.some
    /\ Len(item_links) = 2
    /\ is_unlocated(item_links[1]) /\ is_primitive_link(item_links[2])
    /\ Len(rendered.val) = 1
    /\ rendered.val[1].original_text = item_links[2].link

\* The position of the first '#' of the fragment, Len + 1 when it has none.
first_hash(f) ==
    IF \E i \in 1..Len(f) : f[i] = HASH
    THEN CHOOSE i \in 1..Len(f) : f[i] = HASH /\ \A j \in 1..(i - 1) : f[j] # HASH
    ELSE Len(f) + 1

\* The page of a primitive: std/primitive.<name>.html<anchor>
primitive_page(f) ==
    StdPrimitive \o SubSeq(f, 1, first_hash(f) - 1) \o DotHtml
    \o SubSeq(f, first_hash(f), Len(f))

without_final_slash(url) ==
    IF Len(url) > 0 /\ url[Len(url)] = SLASH THEN SubSeq(url, 1, Len(url) - 1) ELSE url

\* The base of a crate that is not rendered locally.
external_base ==
    IF extern_location.some /\ extern_location.val.loc = "Remote"
    THEN extern_location.val.url
    ELSE IF nightly THEN NightlyRoot ELSE StableRoot

IsLocal == extern_location.some /\ extern_location.val.loc = "Local"

\* C14: for a record with no target identifier and a fragment, in a crate
\* hosted remotely or of unknown or unrecorded location, the href is the
\* base, exactly one '/', "std/primitive.", the fragment before its first
\* '#', ".html" and the fragment from its first '#' on; the base is the
\* remote url, or the nightly or stable standard-library root by the flag.
C14_PrimitiveHref ==
    (LinksCalled /\ rendered.some /\ ~IsLocal) =>
        \A i \in 1..Len(rendered.val) :
            is_primitive_link(rendered_records[i]) =>
                rendered.val[i].href =
                    without_final_slash(external_base) \o <<SLASH>>
                    \o primitive_page(rendered_records[i].fragment.val)

\* The primitive u#m#n of a crate hosted at "r/".
C14_Witness ==
    /\ LinksCalled /\ rendered.some
    /\ extern_location = Some(Remote(RemoteRSlash))
    /\ Len(item_links) = 1 /\ is_primitive_link(item_links[1])
    /\ item_links[1].fragment.val = FragUMN
    /\ rendered.val[1].href =
         <<"r", "/", "s", "t", "d", "/", "p", "r", "i", "m", "i", "t", "i", "v", "e",
           ".", "u", ".", "h", "t", "m", "l", "#", "m", "#", "n">>

\* C15: for a primitive record in a crate rendered locally, the href is the
\* relative path of `depth` repetitions of "../" followed by the primitive
\* page, for every depth, depth 0 included.
C15_LocalPrimitiveHrefIsRelative ==
    (LinksCalled /\ rendered.some /\ IsLocal) =>
        \A i \in 1..Len(rendered.val) :
            is_primitive_link(rendered_records[i]) =>
                rendered.val[i].href =
                    repeat_dot_dot(current_depth)
                    \o primitive_page(rendered_records[i].fragment.val)

\* C16: a record with neither a target identifier nor a fragment makes links
\* abort; with such a record present links returns no list.
C16_UnlinkedRecordAborts ==
    (LinksCalled /\ has_unlinked) => (LinksFaulted /\ ~rendered.some)

\* A rendered record followed by one with neither identifier nor fragment.
C16_Witness ==
    /\ LinksCalled /\ LinksFaulted
    /\ Len(item_links) = 2
    /\ is_primitive_link(item_links[1]) /\ is_unlinked(item_links[2])

\* ------------------------------------------------------------ fake items

Asked(op) == item_query.op = op
\* The mark the thread of the answered query holds for the item's crate.
own_mark == max_def_idx[item_query.thread][item_query.def_id.krate]
asked_index == item_query.def_id.index
asked_item(j) == DefId(item_query.def_id.krate, j)

\* C17 as the claim states it: an item is fake exactly when a mark is
\* recorded for its crate and its index exceeds the mark; no index at or
\* below the mark is fake.
C17_FakeAboveMark ==
    Asked("is_fake") =>
        (item_query.result <=> (own_mark.some /\ asked_index > own_mark.val))

\* C17, amended: an item is fake exactly when a mark is recorded for its
\* crate and its index is at or above the mark; without a mark it is not
\* fake; for a fixed mark every index above a fake one is fake and no index
\* below the mark is fake.
C17_FakeAtOrAboveMark ==
    Asked("is_fake") =>
        /\ item_query.result <=> (own_mark.some /\ asked_index >= own_mark.val)
        /\ ~own_mark.some => ~item_query.result
        /\ item_query.result =>
              \A j \in asked_index..MaxDefIdx :
                  is_fake(max_def_idx, item_query.thread, asked_item(j))
        /\ own_mark.some =>
              \A j \in 0..(own_mark.val - 1) :
                  ~is_fake(max_def_idx, item_query.thread, asked_item(j))

\* The item whose index equals the recorded mark is fake.
C17_Witness ==
    /\ Asked("is_fake") /\ item_query.result
    /\ own_mark.some /\ own_mark.val = asked_index
    /\ asked_index > 0

base_lookups == {"stability", "const_stability", "deprecation"}
derived_lookups == {"stability_class", "stable_since", "const_stable_since"}
asked_is_fake == is_fake(max_def_idx, item_query.thread, item_query.def_id)

\* C18: stability, const_stability and deprecation return None for a fake
\* item without a lookup in the compiler's tables, and for any other item
\* the result of the one lookup keyed by its def_id; stability_class,
\* stable_since and const_stable_since return None for a fake item.
C18_FakeItemsSkipLookups ==
    /\ item_query.op \in base_lookups =>
         IF asked_is_fake
         THEN ~item_query.result.some /\ item_query.lookups = <<>>
         ELSE /\ opt_eq(item_query.result, tcx[item_query.op][item_query.def_id])
              /\ item_query.lookups = <<<<item_query.op, item_query.def_id>>>>
    /\ item_query.op \in derived_lookups =>
         (asked_is_fake => ~item_query.result.some /\ item_query.lookups = <<>>)

\* The stability of a fake item the compiler's table has an entry for.
C18_Witness ==
    /\ Asked("stability") /\ asked_is_fake
    /\ tcx.stability[item_query.def_id].some
    /\ ~item_query.result.some /\ item_query.lookups = <<>>

\* C19 as the claim states it: once a mark is recorded for a crate, is_fake
\* on any thread answers as on the thread that recorded the mark.
C19_MarkIsProcessWide ==
    Asked("is_fake") =>
        \A u \in Threads :
            LET mark == max_def_idx[u][item_query.def_id.krate]
            IN mark.some => (item_query.result <=> asked_index >= mark.val)

\* C19, amended: the table is per thread: is_fake answers from the marks the
\* calling thread recorded itself; on a thread that recorded no mark for
\* the crate it answers false whatever marks other threads recorded.
C19_MarkIsPerThread ==
    Asked("is_fake") =>
        IF own_mark.some THEN item_query.result = (asked_index >= own_mark.val)
        ELSE item_query.result = FALSE

\* Another thread recorded a mark that makes the item fake there; the
\* calling thread recorded none and answers false.
C19_Witness ==
    /\ Asked("is_fake") /\ ~item_query.result /\ ~own_mark.some
    /\ \E u \in Threads :
         /\ u # item_query.thread
         /\ is_fake(max_def_idx, u, item_query.def_id)

\* ------------------------------------------------- primitive impls table
HasReturned(t) == callers[t].pc = "returned"

\* The closure ran at most once, exactly once when the cell is initialized,
\* and every returned caller holds the cell's fully built table.
InitializedOnce ==
    /\ closure_runs <= 1
    /\ cell.state = "Complete" =>
         /\ closure_runs = 1
         /\ cell.value.some /\ DOMAIN cell.value.val = PrimitiveTypes
    /\ \A t \in Threads :
         HasReturned(t) =>
            /\ cell.state = "Complete"
            /\ opt_eq(callers[t].seen, cell.value)
    /\ \A t, u \in Threads :
         (HasReturned(t) /\ HasReturned(u)) => opt_eq(callers[t].seen, callers[u].seen)

\* C20: under any interleaving of calls of all_impls from several threads
\* the table-building closure runs exactly once, every caller observes the
\* same fully built table, and the table never changes once built, whatever
\* compiler context a later call passes.
C20_TableBuiltExactlyOnce ==
    /\ []InitializedOnce
    /\ [][cell.state = "Complete" => cell' = cell]_vars

\* Two threads called with different compiler contexts and both returned
\* the table built from the first one's.
C20_Witness ==
    /\ HasReturned("t1") /\ HasReturned("t2")
    /\ callers["t1"].tcx # callers["t2"].tcx
    /\ closure_runs = 1
    /\ opt_eq(callers["t1"].seen, callers["t2"].seen)
    /\ callers["t2"].seen.val = build_all_impls(callers["t1"].tcx)
    /\ callers["t2"].seen.val # build_all_impls(callers["t2"].tcx)

\* ------------------------------------------------ add_doc_fragment alone
Added == flat.op = "add_doc_fragment"

\* What add_doc_fragment pushes for one line.
pushed_for(line, indent) ==
    IF has_non_whitespace(line) THEN SubSeq(line, indent + 1, Len(line)) ELSE line

\* A line the assertion of add_doc_fragment rejects.
too_short(line, indent) == has_non_whitespace(line) /\ Len(line) < indent

TextHelloWorld == <<"h", "e", "l", "l", "o", NL, NL, "w", "o", "r", "l", "d">>

\* C6: add_doc_fragment appends each line of the text, without its first
\* `indent` bytes when it has a non-whitespace character and unchanged when it
\* is blank, one newline between consecutive lines, and one more newline exactly
\* when need_backline is set; indent 4 and "    hello\n\n    world" without
\* the flag give "hello\n\nworld".
C6_AddDocFragment ==
    Added =>
        LET frag == frags[1]
            ls == lines(frag.doc)
        IN /\ (\A i \in 1..Len(ls) : ~too_short(ls[i], frag.indent)) =>
                /\ ~flat.r.fault
                /\ flat.r.out =
                     flat.out
                     \o join_with_newline([i \in 1..Len(ls) |-> pushed_for(ls[i], frag.indent)])
                     \o (IF frag.need_backline THEN <<NL>> ELSE <<>>)
           /\ (frag.doc = TextHello /\ frag.indent = 4 /\ ~frag.need_backline
                 /\ flat.out = <<>>) =>
                flat.r = [out |-> TextHelloWorld, fault |-> FALSE]

\* add_doc_fragment on indent 4 and "    hello\n\n    world".
C6_Witness ==
    /\ Added /\ ~flat.r.fault
    /\ frags[1].doc = TextHello /\ frags[1].indent = 4 /\ ~frags[1].need_backline
    /\ flat.out = <<>> /\ flat.r.out = TextHelloWorld

\* C7 as the claim states it: a fragment with any line shorter than its
\* indent makes add_doc_fragment abort.
C7_AnyShortLineAborts ==
    Added =>
        LET ls == lines(frags[1].doc)
        IN (\E i \in 1..Len(ls) : Len(ls[i]) < frags[1].indent) => flat.r.fault

\* C7, amended: add_doc_fragment aborts exactly when the fragment has a line
\* with a non-whitespace character that is shorter than the indent, and then
\* has appended the lines before the first such line and nothing of that line
\* or after it; a blank line shorter than the indent is appended unchanged.
C7_ShortTextLineAborts ==
    Added =>
        LET frag == frags[1]
            ls == lines(frag.doc)
            short == {i \in 1..Len(ls) : too_short(ls[i], frag.indent)}
        IN /\ flat.r.fault <=> short # {}
           /\ flat.r.fault =>
                LET first == CHOOSE i \in short : \A j \in short : i <= j
                IN flat.r.out =
                     flat.out
                     \o join_with_newline([i \in 1..(first - 1) |-> pushed_for(ls[i], frag.indent)])
                     \o (IF first > 1 THEN <<NL>> ELSE <<>>)

\* "  a\n b" with indent 3: the first line is appended, the second aborts.
C7_Witness ==
    /\ Added /\ flat.r.fault
    /\ frags[1].doc = TextRagged /\ frags[1].indent = 3
    /\ flat.out = <<"x">> /\ flat.r.out = <<"x", NL>>

\* ---------------------------------------------------------- re-flattening
Reflattened == flat.op \in {"doc_value", "collapsed_doc_value"} /\ flat.first.some

\* C2 as the claim states it: flattening the flattened string again, as a
\* single fragment with indent 0 and no backline, returns the same string.
C2_FlatteningIdempotent ==
    Reflattened => flat.again = flat.first

\* C2, amended: flattening the flattened string again returns it without its
\* final newline when it ends with one (None from doc_value when nothing is
\* left), and the same string otherwise.
C2_ReflatteningDropsFinalNewline ==
    (Reflattened /\ no_carriage_return(flat.first.val)) =>
        LET rest == without_final_newline(flat.first.val)
        IN flat.again = IF flat.op = "doc_value" /\ rest = <<>> THEN None ELSE Some(rest)

\* doc_value of two fragments ends with the first fragment's backline, and
\* flattening it again drops that newline.
C2_Witness ==
    /\ Reflattened /\ flat.op = "doc_value"
    /\ Len(frags) = 2
    /\ flat.first.val = <<"a", NL>>
    /\ flat.again = Some(<<"a">>)

\* ------------------------------------------------------------------ impls
\* Thread t has returned from self.impls(tcx).
ImplsReturned(t) == callers[t].pc = "returned" /\ callers[t].self.some

\* C21: the primitive-impls table has an entry for each of the 25
\* PrimitiveType tags and every entry holds at most 4 definitions, whatever
\* lang items are defined; so impls never hits its missing-entry fault and
\* no entry overflows its 4 slots.
C21_EveryTagHasEntryOfAtMostFour ==
    /\ Cardinality(PrimitiveTypes) = 25
    /\ cell.value.some =>
         /\ DOMAIN cell.value.val = PrimitiveTypes
         /\ \A p \in PrimitiveTypes : Len(cell.value.val[p]) <= 4
    /\ \A t \in Threads :
         ImplsReturned(t) =>
            /\ callers[t].ret.some
            /\ callers[t].ret.val = callers[t].seen.val[callers[t].self.val]
            /\ Len(callers[t].ret.val) <= 4

\* Slice.impls returned the four definitions of a context that defines every
\* lang item, and Never.impls returned its empty entry.
C21_Witness ==
    /\ ImplsReturned("t1") /\ callers["t1"].self.val = "Slice"
    /\ Len(callers["t1"].ret.val) = 4
    /\ ImplsReturned("t2") /\ callers["t2"].self.val = "Never"
    /\ callers["t2"].ret.some /\ callers["t2"].ret.val = <<>>

\* --------------------------------------------------- primitive type names
\* C22: for every tag p, from_symbol(p.as_sym()) is Some(p); as_sym and
\* as_str are injective over the 25 tags and give the same string for a tag.
C22_SymbolRoundTrip ==
    /\ (prim_call.sym.some /\ prim_call.arg.some /\ prim_call.arg.val = prim_call.sym.val) =>
         (prim_call.parsed.some /\ prim_call.parsed.val = prim_call.self)
    /\ prim_call.sym.some =>
         \A q \in PrimitiveTypes \ {prim_call.self} : as_sym(q) # prim_call.sym.val
    /\ prim_call.str.some =>
         \A q \in PrimitiveTypes \ {prim_call.self} : as_str(q) # prim_call.str.val
    /\ (prim_call.sym.some /\ prim_call.str.some) =>
         symbol_str(prim_call.sym.val) = prim_call.str.val

\* The fn primitive, whose symbol is the keyword: named "fn" both ways and
\* parsed back to Fn.
C22_Witness ==
    /\ prim_call.self = "Fn"
    /\ prim_call.sym.some /\ prim_call.sym.val = Kw("Fn")
    /\ prim_call.str.some /\ prim_call.str.val = "fn"
    /\ prim_call.arg.some /\ prim_call.arg.val = Kw("Fn")
    /\ prim_call.parsed.some /\ prim_call.parsed.val = "Fn"

\* ------------------------------------------------------------------ types
\* How many types are nested in t, t included.
RECURSIVE type_depth(_)
type_depth(t) ==
    IF t.inner = <<>> THEN 1 ELSE 1 + type_depth(t.inner[1])

AskedAll == type_call.asked = {"primitive_type", "def_id", "def_id_full"}

\* C30: whenever t.primitive_type() is Some(p), t.def_id_full(cache) is the
\* cache's recorded location of p, None when it has none, and t.def_id() is
\* None; def_id_full returns for every Type after at most one call for each
\* nested type and one more.
C30_DefIdFullIsPrimitiveLocation ==
    /\ (AskedAll /\ type_call.primitive_type.some) =>
         /\ opt_eq(type_call.def_id_full.ret,
                   primitive_location(type_call.cache, type_call.primitive_type.val))
         /\ ~type_call.def_id.ret.some
    /\ AskedAll =>
         /\ type_call.def_id_full.calls \in 1..(type_depth(type_call.self) + 1)
         /\ type_call.def_id.calls \in 1..type_depth(type_call.self)

\* A reference to u8: the query went through the reference to the recorded
\* location of u8.
C30_Witness ==
    /\ AskedAll
    /\ type_call.self = BorrowedRef(<<>>, "Not", Primitive("U8"))
    /\ type_call.primitive_type.some /\ type_call.primitive_type.val = "U8"
    /\ type_call.def_id_full.ret.some /\ type_call.def_id_full.ret.val = <<"std", "U8">>
    /\ type_call.def_id_full.calls = 2
    /\ ~type_call.def_id.ret.some

\* ------------------------------------------------------------- self types
\* The receiver the argument a is, by its name and the shape of its type.
receiver_of(a) ==
    IF a.name # SelfLower THEN None
    ELSE IF a.type_ = Generic(SelfUpper) THEN Some(SelfValue)
    ELSE IF a.type_.tag = "BorrowedRef" /\ a.type_.inner[1] = Generic(SelfUpper)
         THEN Some([tag |-> "SelfBorrowed", lifetime |-> a.type_.lifetime,
                    mutability |-> a.type_.mutability, type_ |-> <<>>])
         ELSE Some([tag |-> "SelfExplicit", lifetime |-> <<>>, mutability |-> "",
                    type_ |-> <<a.type_>>])

\* C23: to_self is None for an argument not named self; for one named self
\* it is SelfValue when the type is the generic Self, SelfBorrowed with the
\* reference's own lifetime and mutability when the type is a borrowed
\* reference to Self, and SelfExplicit(type) otherwise; self_type classifies
\* the first argument only and is None without arguments.
C23_ReceiverOfFirstArgument ==
    /\ fn_call.arg > 0 =>
         LET a == fn_call.inputs[fn_call.arg]
         IN /\ (a.name # SelfLower) => ~fn_call.to_self.some
            /\ opt_eq(fn_call.to_self, receiver_of(a))
    /\ fn_call.asked =>
         IF fn_call.inputs = <<>> THEN ~fn_call.self_type.some
         ELSE opt_eq(fn_call.self_type, receiver_of(fn_call.inputs[1]))

\* (x: T, self: &'a mut Self): to_self of the second argument is
\* SelfBorrowed('a, Mut) and self_type, looking at x only, is None.
C23_Witness ==
    /\ Len(fn_call.inputs) = 2
    /\ fn_call.inputs[1].name # SelfLower
    /\ fn_call.arg = 2
    /\ fn_call.to_self.some
    /\ fn_call.to_self.val = SelfBorrowed(<<"'a">>, "Mut")
    /\ fn_call.asked /\ ~fn_call.self_type.some

\* ------------------------------------------------------------ inner items
\* What inner_items returned is the owned items in stored order for the
\* kinds that own items and empty for every other kind; a second call
\* returned what the first did.
InnerItemsAreOwned ==
    /\ item_call.ret.some =>
         LET k == item_call.self
         IN item_call.ret.val =
               IF k.tag \in {"StructItem", "UnionItem", "EnumItem", "TraitItem",
                             "ImplItem", "ModuleItem"}
                  \/ (k.tag = "VariantItem" /\ k.variant = "Struct")
               THEN k.items
               ELSE <<>>
    /\ item_call.calls = 2 => item_call.ret = item_call.earlier

\* C24: inner_items returns the owned children in stored order for Struct,
\* Union, Enum, Trait, Impl, Module and struct-like Variant items and nothing
\* for any other kind, a StrippedItem included whatever it wraps; it leaves
\* the item as it was, and a second call returns the same sequence.
C24_InnerItemsOfOwnersOnly ==
    []InnerItemsAreOwned /\ [][item_call'.self = item_call.self]_vars

\* A stripped struct with two fields: asked twice, nothing both times.
C24_Witness ==
    /\ item_call.self.tag = "StrippedItem"
    /\ item_call.self.boxed[1].tag = "StructItem"
    /\ item_call.self.boxed[1].items = <<"i2", "i1">>
    /\ item_call.calls = 2
    /\ item_call.ret.some /\ item_call.ret.val = <<>>

\* ------------------------------------------------- Attributes == and hash
\* The identities of the non-doc attributes of a, in order.
identities(a) == [i \in 1..Len(a.other_attrs) |-> a.other_attrs[i].id]

\* C25: two Attributes are equal exactly when their doc fragments, cfg
\* predicate, span, links and the sequence of identities of their non-doc
\* attributes are equal, whatever the contents of those attributes and
\* inner_docs; and equal values hash equally.
C25_EqAndHashAgree ==
    LET a == attrs_cmp.self
        b == attrs_cmp.rhs
    IN /\ "eq" \in attrs_cmp.asked =>
            (attrs_cmp.eq <=>
                /\ a.doc_strings = b.doc_strings
                /\ a.cfg.some = b.cfg.some
                /\ (a.cfg.some => a.cfg.val = b.cfg.val)
                /\ a.span.some = b.span.some
                /\ (a.span.some => a.span.val = b.span.val)
                /\ a.links = b.links
                /\ identities(a) = identities(b))
       /\ (attrs_cmp.asked = {"eq", "hash"} /\ attrs_cmp.eq) =>
            attrs_cmp.self_hash = attrs_cmp.rhs_hash

\* Two values that differ in inner_docs and in what their one non-doc
\* attribute says, but not in its identity: equal, and hashed equally.
C25_Witness ==
    /\ attrs_cmp.asked = {"eq", "hash"}
    /\ attrs_cmp.self.inner_docs # attrs_cmp.rhs.inner_docs
    /\ Len(attrs_cmp.self.other_attrs) = 1 /\ Len(attrs_cmp.rhs.other_attrs) = 1
    /\ attrs_cmp.self.other_attrs[1].name # attrs_cmp.rhs.other_attrs[1].name
    /\ attrs_cmp.self.doc_strings # <<>> /\ attrs_cmp.self.cfg.some
    /\ attrs_cmp.eq
    /\ attrs_cmp.self_hash = attrs_cmp.rhs_hash

\* --------------------------------------------------------- need_backline
\* The flag update_need_backline gives `prev` when `new` is pushed after it.
decided_backline(prev, new) ==
    IF is_include(prev.kind) \/ prev.kind # new.kind
       \/ prev.parent_module # new.parent_module
    THEN prev.kind \in {SugaredDoc, RawDoc}
    ELSE TRUE

\* One step of from_ast on doc_strings: nothing, or one fragment appended
\* with only the flag of the previously last fragment decided.
AppendsDecidingPrevious ==
    IF Len(doc_strings') = Len(doc_strings) + 1
    THEN LET n == Len(doc_strings)
             new == doc_strings'[n + 1]
         IN /\ ~new.need_backline
            /\ \A i \in 1..(n - 1) : doc_strings'[i] = doc_strings[i]
            /\ n > 0 =>
                 doc_strings'[n] =
                    [doc_strings[n] EXCEPT
                        !.need_backline = decided_backline(doc_strings[n], new)]
    ELSE doc_strings' = doc_strings

\* C26: each time from_ast appends a fragment it sets the need_backline of
\* the previously last fragment, to (its kind is sugared or raw) when it is
\* an Include or differs from the new one in kind or parent_module and to
\* true when both match, and changes no other fragment.
C26_OnlyPreviousFlagDecided == [][AppendsDecidingPrevious]_vars

\* Three fragments pushed: an Include, whose flag was decided false, a
\* comment, whose flag was decided true, and the last one.
C26_Witness ==
    /\ pc = "clean" /\ Len(doc_strings) = 3
    /\ is_include(doc_strings[1].kind) /\ ~doc_strings[1].need_backline
    /\ doc_strings[2].kind = SugaredDoc /\ doc_strings[2].need_backline
    /\ doc_strings[3].kind # SugaredDoc /\ ~doc_strings[3].need_backline

\* ----------------------------------------------------------- line numbers
\* The lines of the texts of the first k fragments.
RECURSIVE lines_before(_, _)
lines_before(strings, k) ==
    IF k = 0 THEN 0
    ELSE lines_before(strings, k - 1) + Len(lines(strings[k].doc))

\* C27: in the doc_strings from_ast builds, each fragment's line is the
\* number of text lines of all fragments before it, 0 for the first, and the
\* line numbers increase monotonically along the sequence: they never
\* decrease, stay equal across fragments with an empty text and grow across
\* every other fragment.
C27_LineIsRunningTotal ==
    /\ \A i \in 1..Len(doc_strings) :
         doc_strings[i].line = lines_before(doc_strings, i - 1)
    /\ \A i \in 1..Len(doc_strings) : \A j \in i..Len(doc_strings) :
         /\ doc_strings[i].line <= doc_strings[j].line
         /\ (doc_strings[i].line < doc_strings[j].line) <=>
                (\E k \in i..(j - 1) : doc_strings[k].doc # <<>>)
    /\ Returned => result.doc_strings = doc_strings

\* An empty text, then a text of two lines, then a third fragment.
C27_Witness ==
    /\ Returned /\ Len(result.doc_strings) = 3
    /\ result.doc_strings[1].doc = <<>> /\ result.doc_strings[2].doc = TextJ
    /\ result.doc_strings[1].line = 0
    /\ result.doc_strings[2].line = 0
    /\ result.doc_strings[3].line = 2

\* C28: after from_ast the last fragment has need_backline false and every
\* other fragment has it true exactly when its kind is not Include,
\* whether or not its neighbour differs in kind or module.
C28_BacklineByKindAndPosition ==
    Returned =>
        \A i \in 1..Len(result.doc_strings) :
            result.doc_strings[i].need_backline =
                (i < Len(result.doc_strings) /\ ~is_include(result.doc_strings[i].kind))

\* A re-exported comment, an Include and a comment of the item.
C28_Witness ==
    /\ Returned /\ Len(result.doc_strings) = 3
    /\ result.doc_strings[1].kind = SugaredDoc /\ result.doc_strings[1].parent_module.some
    /\ is_include(result.doc_strings[2].kind)
    /\ result.doc_strings[3].kind = SugaredDoc /\ ~result.doc_strings[3].parent_module.some
    /\ result.doc_strings[1].need_backline
    /\ ~result.doc_strings[2].need_backline
    /\ ~result.doc_strings[3].need_backline

\* The collapsed text of the first k fragments.
collapsed_upto(k) == from_iter(SubSeq(result.doc_strings, 1, k)).out

\* C29: in the collapsed text of an Attributes built by from_ast, the texts
\* of two consecutive non-empty fragments are separated by at least one
\* newline, whatever their kinds, two Includes of one file too.
C29_NewlineBetweenFragments ==
    (/\ Returned
     /\ cdv.some
     /\ (\A i \in 1..Len(result.doc_strings) :
            has_non_whitespace(result.doc_strings[i].doc))) =>
        \A k \in 1..(Len(result.doc_strings) - 1) :
            LET before == collapsed_upto(k)
            IN /\ is_prefix(before, cdv.val)
               /\ Len(cdv.val) > Len(before)
               /\ \/ before[Len(before)] = NL
                  \/ cdv.val[Len(before) + 1] = NL

====
